---- MODULE Spec2Model ----
(***************************************************************************)
(* FeatureFlagAgent (src/src/agent.ts): a Durable Object holding six SQL   *)
(* tables and a map of live WebSocket sessions.  Tables are sequences of  *)
(* rows in rowid order.  Timestamps (ISO strings, compared as text by the *)
(* ORDER BY clauses) are naturals with the same order; UUIDs are fresh    *)
(* strings drawn from a counter.  A request handler runs without          *)
(* interruption up to its `await this.env.AI.run(...)`: the handler is one *)
(* action up to that call and one action from the call's outcome on.      *)
(* A row a query returns is an object keyed by column name.  Numbers:      *)
(* error rates and latencies are integers, a mean is NaN or a (sum, count) *)
(* pair whose quotient, product and comparison are computed in IEEE-754   *)
(* double precision, round to nearest even; confidence is kept in tenths  *)
(* (5 is 0.5).                                                            *)
(***************************************************************************)
EXTENDS Integers, Sequences, FiniteSets, TLC

VARIABLES
    feature_flags,   \* table feature_flags   (PRIMARY KEY id)
    flag_changes,    \* table flag_changes    (PRIMARY KEY id)
    impact_metrics,  \* table impact_metrics  (AUTOINCREMENT id)
    predictions,     \* table predictions     (PRIMARY KEY flag_id)
    anomalies,       \* table anomalies       (PRIMARY KEY id)
    conversations,   \* table conversations   (PRIMARY KEY id)
    sessions,        \* this.sessions: the session ids, in Map insertion order
    broken,          \* the sessions whose socket throws on send
    pending,         \* handlers suspended in `await this.env.AI.run(...)`
    outbox,          \* the socket sends of the latest step, in order
    response,        \* the HTTP response of the latest completed request
    lastScan,        \* the latest detectAnomalies call: flag, window size, rows created
    clock,           \* new Date()
    nextId           \* crypto.randomUUID()

vars == <<feature_flags, flag_changes, impact_metrics, predictions, anomalies,
          conversations, sessions, broken, pending, outbox, response, lastScan,
          clock, nextId>>

-----------------------------------------------------------------------------
(* Bounds of the model *)

MaxMetrics == 1
MaxChanges == 2
MaxPending == 1
MaxClock == 4
MaxIds == 4
MaxSamples == 7
MaxScanSamples == 6
MaxScans == 2
MaxMessages == 2
MaxSessions == 2
MaxAllSessions == 1
MaxAllClock == 3
MaxAllIds == 4
MaxChatMessages == 13

-----------------------------------------------------------------------------
(* Program constants *)

MetricsWindow == 50
MinSamples == 5
RecentSize == 5
ErrorSpikeNum == 3
ErrorSpikeDen == 2
ErrorFloor == 1
ErrorCriticalFactor == 2
LatencySpikeFactor == 2
LatencyCriticalFactor == 3
DefaultRiskScore == 50
DefaultConfidence == 7
ParseFailureConfidence == 5
CallFailureConfidence == 3
RecentAnomaliesLimit == 20
HistoryLimit == 10
RecentChangesLimit == 20
PromptHistorySize == 5

-----------------------------------------------------------------------------
(* Values *)

\* An optional value (undefined, null or a missing JSON key) is <<>>, a present one <<v>>.
None == <<>>
Some(v) == <<v>>

Uuid(n) == "uuid-" \o ToString(n)

Min(a, b) == IF a < b THEN a ELSE b

RemoveAt(s, i) == SubSeq(s, 1, i - 1) \o SubSeq(s, i + 1, Len(s))

\* LIMIT n
Limit(rows, n) == SubSeq(rows, 1, Min(n, Len(rows)))

\* reduce((sum, m) => sum + m, 0)
RECURSIVE Sum(_)
Sum(numbers) ==
    IF numbers = <<>> THEN 0 ELSE Head(numbers) + Sum(Tail(numbers))

\* object.key: undefined when the object has no such property
Prop(object, key) == IF key \in DOMAIN object THEN Some(object[key]) ELSE None

\* A number is the quotient sum / n, or NaN.
NaN == [nan |-> TRUE, sum |-> 0, n |-> 1]

\* reduce((sum, m) => sum + m.key, 0) / length over the values m.key: adding
\* undefined gives NaN, and so does 0 / 0
Mean(values) ==
    IF values = <<>> \/ \E i \in 1..Len(values) : values[i] = None
    THEN NaN
    ELSE [nan |-> FALSE, sum |-> Sum([i \in 1..Len(values) |-> values[i][1]]),
          n |-> Len(values)]

\* A finite double is its sign (-1, 0 or 1), and for a nonzero one the 53 bits
\* of its significand, most significant first, and its exponent: the value is
\* sign * 0.b1 b2 ... b53 * 2^exp with b1 = 1.
SignificandBits == 53

DoubleZero == [sign |-> 0, exp |-> 0, bits |-> <<>>]

\* the binary digits of a natural, most significant first; none for 0
RECURSIVE IntBits(_)
IntBits(i) == IF i = 0 THEN <<>> ELSE Append(IntBits(i \div 2), i % 2)

\* what is left of r / q after k binary digits behind the point, for 0 <= r < q
RECURSIVE Remainder(_, _, _)
Remainder(r, q, k) == IF k = 0 THEN r ELSE (2 * Remainder(r, q, k - 1)) % q

\* the next k binary digits of r / q after the point, for 0 <= r < q, and the
\* remainder left
LongDivide(r, q, k) ==
    [bits |-> [i \in 1..k |-> (2 * Remainder(r, q, i - 1)) \div q],
     rem  |-> Remainder(r, q, k)]

\* the zeros that follow the point in r / q before its first 1, for 0 < r < q,
\* and the remainder they leave
RECURSIVE LeadingZeros(_, _)
LeadingZeros(r, q) ==
    IF 2 * r >= q THEN [zeros |-> 0, rem |-> r]
    ELSE LET rest == LeadingZeros(2 * r, q)
         IN  [zeros |-> rest.zeros + 1, rem |-> rest.rem]

\* bits + 1, and the carry out of the first bit
IncrementBits(bits) ==
    LET zeros == {i \in 1..Len(bits) : bits[i] = 0}
        last == CHOOSE i \in zeros : \A j \in zeros : j <= i
    IN  IF zeros = {}
        THEN [bits |-> [i \in 1..Len(bits) |-> 0], carry |-> 1]
        ELSE [bits |-> [i \in 1..Len(bits) |->
                           IF i < last THEN bits[i] ELSE IF i = last THEN 1 ELSE 0],
              carry |-> 0]

\* the double nearest to sign * 0.bits... * 2^exp, ties to the even significand;
\* bits starts with 1, and sticky tells that nonzero digits follow bits
RoundToDouble(sign, bits, sticky, exp) ==
    LET digit(i) == IF i <= Len(bits) THEN bits[i] ELSE 0
        sig == [i \in 1..SignificandBits |-> digit(i)]
        guard == digit(SignificandBits + 1)
        rest == sticky \/ \E i \in (SignificandBits + 2)..Len(bits) : bits[i] = 1
        up == guard = 1 /\ (rest \/ sig[SignificandBits] = 1)
        inc == IncrementBits(sig)
    IN  IF ~up THEN [sign |-> sign, exp |-> exp, bits |-> sig]
        ELSE IF inc.carry = 0 THEN [sign |-> sign, exp |-> exp, bits |-> inc.bits]
        ELSE [sign |-> sign, exp |-> exp + 1,
              bits |-> [i \in 1..SignificandBits |-> IF i = 1 THEN 1 ELSE 0]]

\* p / q for integers p and q > 0
DivideDouble(p, q) ==
    LET sign == IF p > 0 THEN 1 ELSE IF p < 0 THEN -1 ELSE 0
        m == IF p < 0 THEN -p ELSE p
        whole == IntBits(m \div q)
        fraction == LongDivide(m % q, q, SignificandBits + 1 - Len(whole))
        skip == LeadingZeros(m % q, q)
        small == LongDivide(skip.rem, q, SignificandBits + 1)
    IN  IF m = 0 THEN DoubleZero
        ELSE IF whole # <<>>
        THEN RoundToDouble(sign, whole \o fraction.bits, fraction.rem # 0, Len(whole))
        ELSE RoundToDouble(sign, small.bits, small.rem # 0, -skip.zeros)

\* the carry into digit i of bits * k, for a natural k
RECURSIVE CarryInto(_, _, _)
CarryInto(bits, k, i) ==
    IF i = Len(bits) THEN 0
    ELSE (bits[i + 1] * k + CarryInto(bits, k, i + 1)) \div 2

\* bits * k
TimesBits(bits, k) ==
    IntBits(CarryInto(bits, k, 0))
       \o [i \in 1..Len(bits) |-> (bits[i] * k + CarryInto(bits, k, i)) % 2]

RECURSIVE Log2(_)
Log2(n) == IF n <= 1 THEN 0 ELSE 1 + Log2(n \div 2)

\* x * c for the literal c = num / den, den a power of two (1.5, 2, 3): the
\* exact product, rounded
TimesDouble(x, num, den) ==
    LET product == TimesBits(x.bits, num)
    IN  IF x.sign = 0 THEN DoubleZero
        ELSE RoundToDouble(x.sign, product, FALSE,
                           x.exp + Len(product) - SignificandBits - Log2(den))

\* |x| > |y| for nonzero doubles
MagnitudeGt(x, y) ==
    \/ x.exp > y.exp
    \/ /\ x.exp = y.exp
       /\ \E i \in 1..SignificandBits :
             /\ x.bits[i] > y.bits[i]
             /\ \A j \in 1..(i - 1) : x.bits[j] = y.bits[j]

\* x > y
GtDouble(x, y) ==
    IF x.sign # y.sign THEN x.sign > y.sign
    ELSE IF x.sign = 0 THEN FALSE
    ELSE IF x.sign = 1 THEN MagnitudeGt(x, y)
    ELSE MagnitudeGt(y, x)

\* a > b * c for the literal c = num / den: false when either side is NaN
MeanGt(a, b, num, den) ==
    /\ ~a.nan /\ ~b.nan
    /\ GtDouble(DivideDouble(a.sum, a.n),
                TimesDouble(DivideDouble(b.sum, b.n), num, den))

\* a > k: false when a is NaN
GtNumber(a, k) == ~a.nan /\ GtDouble(DivideDouble(a.sum, a.n), DivideDouble(k, 1))

-----------------------------------------------------------------------------
(* Queries *)

\* ORDER BY timestamp DESC; rows of equal timestamp stay in rowid order
RECURSIVE OrderByTimestampDesc(_)
OrderByTimestampDesc(rows) ==
    IF rows = <<>> THEN <<>>
    ELSE LET i == CHOOSE i \in 1..Len(rows) :
                    \A j \in 1..Len(rows) :
                        \/ rows[j].timestamp < rows[i].timestamp
                        \/ rows[j].timestamp = rows[i].timestamp /\ j >= i
         IN  <<rows[i]>> \o OrderByTimestampDesc(RemoveAt(rows, i))

\* ORDER BY column DESC; rows of equal value stay in rowid order
RECURSIVE OrderByDesc(_, _)
OrderByDesc(rows, column) ==
    IF rows = <<>> THEN <<>>
    ELSE LET i == CHOOSE i \in 1..Len(rows) :
                    \A j \in 1..Len(rows) :
                        \/ rows[j][column] < rows[i][column]
                        \/ rows[j][column] = rows[i][column] /\ j >= i
         IN  <<rows[i]>> \o OrderByDesc(RemoveAt(rows, i), column)

\* SELECT * FROM impact_metrics WHERE flag_id = ? ORDER BY timestamp DESC LIMIT 50
MetricsQuery(table, flagId) ==
    Limit(OrderByTimestampDesc(SelectSeq(table, LAMBDA r : r.flag_id = flagId)),
          MetricsWindow)

\* SELECT * FROM feature_flags WHERE id = ?
FlagQuery(flagId) == SelectSeq(feature_flags, LAMBDA r : r.id = flagId)

\* SELECT * FROM flag_changes WHERE flag_id = ? ORDER BY changed_at DESC LIMIT 20
RecentChanges(table, flagId) ==
    Limit(OrderByDesc(SelectSeq(table, LAMBDA r : r.flag_id = flagId), "changed_at"),
          RecentChangesLimit)

\* buildPredictionPrompt's Recent Change History: a line for each of the first
\* five rows, with what c.changeType and c.changedAt read on the row
PromptHistory(recentChanges) ==
    [i \in 1..Min(PromptHistorySize, Len(recentChanges)) |->
        [changeType |-> Prop(recentChanges[i], "changeType"),
         changedAt  |-> Prop(recentChanges[i], "changedAt")]]

-----------------------------------------------------------------------------
(* broadcast: one send per session of the map, in insertion order; a send  *)
(* that throws is caught and delivers nothing                              *)

\* A variant of broadcast without the try around the send: the first send that
\* throws ends the loop
broadcastUnguarded(frame) ==
    LET live == {i \in 1..Len(sessions) :
                    \A j \in 1..i : sessions[j] \notin broken}
    IN  [i \in 1..Cardinality(live) |-> [to |-> sessions[i], frame |-> frame]]

broadcast(frame) ==
    LET open == SelectSeq(sessions, LAMBDA s : s \notin broken) IN
    [i \in 1..Len(open) |-> [to |-> open[i], frame |-> frame]]

RECURSIVE BroadcastAll(_)
BroadcastAll(frames) ==
    IF frames = <<>> THEN <<>> ELSE broadcast(Head(frames)) \o BroadcastAll(Tail(frames))

-----------------------------------------------------------------------------
(* detectAnomalies *)

\* m.errorRate and m.latencyP50 of the rows the query returns, which are objects
\* keyed by column name
ErrorRates(rows) == [i \in 1..Len(rows) |-> Prop(rows[i], "errorRate")]
LatenciesP50(rows) == [i \in 1..Len(rows) |-> Prop(rows[i], "latencyP50")]

\* the error-spike rule: the anomaly it creates, if any
ErrorSpike(recent, baseline) ==
    LET avgBaselineError == Mean(ErrorRates(baseline))
        avgRecentError   == Mean(ErrorRates(recent))
    IN
    IF /\ MeanGt(avgRecentError, avgBaselineError, ErrorSpikeNum, ErrorSpikeDen)
       /\ GtNumber(avgRecentError, ErrorFloor)
    THEN << [type |-> "error_spike",
             severity |-> IF MeanGt(avgRecentError, avgBaselineError,
                                    ErrorCriticalFactor, 1)
                          THEN "critical" ELSE "warning",
             metrics |-> recent[1]] >>
    ELSE <<>>

\* the latency-spike rule: the anomaly it creates, if any
LatencySpike(recent, baseline) ==
    LET avgBaselineLatency == Mean(LatenciesP50(baseline))
        avgRecentLatency   == Mean(LatenciesP50(recent))
    IN
    IF MeanGt(avgRecentLatency, avgBaselineLatency, LatencySpikeFactor, 1)
    THEN << [type |-> "latency_spike",
             severity |-> IF MeanGt(avgRecentLatency, avgBaselineLatency,
                                    LatencyCriticalFactor, 1)
                          THEN "critical" ELSE "warning",
             metrics |-> recent[1]] >>
    ELSE <<>>

\* A variant of the rules that needs no window: the newest sample alone, read by
\* its column, against the absolute floor
DetectRulesNewestOnly(table, flagId) ==
    LET metrics == MetricsQuery(table, flagId) IN
    IF metrics # <<>> /\ metrics[1].error_rate > ErrorFloor
    THEN << [type |-> "error_spike", severity |-> "warning", metrics |-> metrics[1]] >>
    ELSE <<>>

\* the rules of detectAnomalies over the metrics table as it stands when the scan
\* runs: the (type, severity, sample) of each anomaly it creates, in creation order
DetectRules(table, flagId) ==
    LET metrics == MetricsQuery(table, flagId) IN
    IF Len(metrics) < MinSamples THEN <<>>
    ELSE
      LET recent   == SubSeq(metrics, 1, Min(RecentSize, Len(metrics)))
          baseline == SubSeq(metrics, RecentSize + 1, Len(metrics))
      IN
      IF Len(baseline) = 0 THEN <<>>
      ELSE ErrorSpike(recent, baseline) \o LatencySpike(recent, baseline)

\* flag?.name || flagId
FlagNameOf(flagId) ==
    LET flag == FlagQuery(flagId) IN
    IF flag # <<>> /\ flag[1].name # "" THEN flag[1].name ELSE flagId

\* the anomaly rows detectAnomalies inserts (createAnomaly), with fresh ids
detectAnomalies(table, flagId) ==
    LET rules == DetectRules(table, flagId) IN
    [i \in 1..Len(rules) |->
        [id          |-> Uuid(nextId + i - 1),
         flag_id     |-> flagId,
         flag_name   |-> FlagNameOf(flagId),
         type        |-> rules[i].type,
         severity    |-> rules[i].severity,
         detected_at |-> clock,
         metrics     |-> rules[i].metrics,
         resolved    |-> FALSE]]

\* createAnomaly's broadcast for each created row
AnomalyFrames(created) ==
    [i \in 1..Len(created) |-> [type |-> "anomaly_detected", payload |-> created[i]]]

ScanRecord(table, flagId, created) ==
    [flagId |-> flagId, nMetrics |-> Len(table), created |-> created,
     seq |-> lastScan.seq + 1]

-----------------------------------------------------------------------------
(* Initial state: the constructor has created the empty tables *)

\* ai is the outcome of the model call the request waited for, displaced the
\* predictions row its INSERT OR REPLACE deleted, reply the body a chat or a listing returned
NoResponse ==
    [op |-> "none", status |-> 0, flagId |-> "", prediction |-> None, ai |-> None,
     displaced |-> None, reply |-> None]

Init ==
    /\ feature_flags = <<>>
    /\ flag_changes = <<>>
    /\ impact_metrics = <<>>
    /\ predictions = <<>>
    /\ anomalies = <<>>
    /\ conversations = <<>>
    /\ sessions = <<>>
    /\ broken = {}
    /\ pending = <<>>
    /\ outbox = <<>>
    /\ response = NoResponse
    /\ lastScan = [flagId |-> "", nMetrics |-> 0, created |-> <<>>, seq |-> 0]
    /\ clock = 1
    /\ nextId = 1

-----------------------------------------------------------------------------
(* handleWebSocket, and the close listener *)

handleWebSocket ==
    LET sessionId == Uuid(nextId) IN
    /\ sessions' = Append(sessions, sessionId)
    /\ outbox' = << [to |-> sessionId,
                     frame |-> [type |-> "connected", sessionId |-> sessionId]] >>
    /\ nextId' = nextId + 1
    /\ response' = [NoResponse EXCEPT !.op = "websocket", !.status = 101]
    /\ UNCHANGED <<feature_flags, flag_changes, impact_metrics, predictions, anomalies,
                   pending, lastScan, clock,
                   conversations, broken>>

\* A variant of the close listener that clears the registry
onCloseAll(sessionId) ==
    /\ \E i \in 1..Len(sessions) : sessions[i] = sessionId
    /\ sessions' = <<>>
    /\ broken' = {}
    /\ outbox' = <<>>
    /\ UNCHANGED <<feature_flags, flag_changes, impact_metrics, predictions, anomalies,
                   conversations, pending, response, lastScan, clock, nextId>>

onClose(sessionId) ==
    /\ \E i \in 1..Len(sessions) : sessions[i] = sessionId
    /\ sessions' = SelectSeq(sessions, LAMBDA s : s # sessionId)
    /\ broken' = broken \ {sessionId}
    /\ outbox' = <<>>
    /\ UNCHANGED <<feature_flags, flag_changes, impact_metrics, predictions, anomalies,
                   conversations, pending, response, lastScan, clock, nextId>>

-----------------------------------------------------------------------------
(* recordMetrics: POST /metrics *)

\* recordMetrics as a trigger of the prediction engine too: it starts a model call
recordMetricsPredicting(metrics) ==
    LET timestamp == IF metrics.timestamp = None THEN clock ELSE metrics.timestamp[1]
        row == [id          |-> Len(impact_metrics) + 1,
                flag_id     |-> metrics.flagId,
                timestamp   |-> timestamp,
                error_rate  |-> metrics.errorRate,
                latency_p50 |-> metrics.latencyP50]
        table == Append(impact_metrics, row)
        created == detectAnomalies(table, metrics.flagId)
        change == [id |-> Some(Uuid(nextId)), flagId |-> metrics.flagId,
                   flagName |-> FlagNameOf(metrics.flagId), changeType |-> "enabled",
                   previousValue |-> None, newValue |-> None, changedAt |-> Some(clock)]
    IN
    /\ impact_metrics' = table
    /\ anomalies' = anomalies \o created
    /\ outbox' = BroadcastAll(AnomalyFrames(created))
    /\ nextId' = nextId + Len(created)
    /\ lastScan' = ScanRecord(table, metrics.flagId, created)
    /\ clock' = clock + 1
    /\ response' = [NoResponse EXCEPT !.op = "metrics", !.status = 200,
                                      !.flagId = metrics.flagId]
    /\ pending' = Append(pending, [op |-> "analyzeFlag", change |-> change,
                                   flag |-> None])
    /\ UNCHANGED <<feature_flags, flag_changes, predictions, sessions,
                   conversations, broken>>

\* recordMetrics under a retention policy: it keeps the newest sample of a flag only
recordMetricsLatestOnly(metrics) ==
    LET timestamp == IF metrics.timestamp = None THEN clock ELSE metrics.timestamp[1]
        row == [id          |-> Len(impact_metrics) + 1,
                flag_id     |-> metrics.flagId,
                timestamp   |-> timestamp,
                error_rate  |-> metrics.errorRate,
                latency_p50 |-> metrics.latencyP50]
        table == Append(SelectSeq(impact_metrics,
                                  LAMBDA m : m.flag_id # metrics.flagId), row)
        created == detectAnomalies(table, metrics.flagId)
    IN
    /\ impact_metrics' = table
    /\ anomalies' = anomalies \o created
    /\ outbox' = BroadcastAll(AnomalyFrames(created))
    /\ nextId' = nextId + Len(created)
    /\ lastScan' = ScanRecord(table, metrics.flagId, created)
    /\ clock' = clock + 1
    /\ response' = [NoResponse EXCEPT !.op = "metrics", !.status = 200,
                                      !.flagId = metrics.flagId]
    /\ UNCHANGED <<feature_flags, flag_changes, predictions, sessions, pending,
                   conversations, broken>>

recordMetrics(metrics) ==
    LET timestamp == IF metrics.timestamp = None THEN clock ELSE metrics.timestamp[1]
        row == [id          |-> Len(impact_metrics) + 1,
                flag_id     |-> metrics.flagId,
                timestamp   |-> timestamp,
                error_rate  |-> metrics.errorRate,
                latency_p50 |-> metrics.latencyP50]
        table == Append(impact_metrics, row)
        created == detectAnomalies(table, metrics.flagId)
    IN
    /\ impact_metrics' = table
    /\ anomalies' = anomalies \o created
    /\ outbox' = BroadcastAll(AnomalyFrames(created))
    /\ nextId' = nextId + Len(created)
    /\ lastScan' = ScanRecord(table, metrics.flagId, created)
    /\ clock' = clock + 1
    /\ response' = [NoResponse EXCEPT !.op = "metrics", !.status = 200,
                                      !.flagId = metrics.flagId]
    /\ UNCHANGED <<feature_flags, flag_changes, predictions, sessions, pending,
                   conversations, broken>>

-----------------------------------------------------------------------------
(* createFlag: POST /flags.  A row keeps the columns the handlers read back *)
(* (id, name, enabled, rollout_percentage and the two timestamps).          *)

HasRow(table, id) == \E i \in 1..Len(table) : table[i].id = id

ErrorResponse(op, flagId) ==
    [NoResponse EXCEPT !.op = op, !.status = 500, !.flagId = flagId]

\* recordFlagChange's INSERT INTO flag_changes, the change having its id and changedAt
ChangeRow(change) ==
    [id             |-> change.id[1],
     flag_id        |-> change.flagId,
     flag_name      |-> change.flagName,
     change_type    |-> change.changeType,
     previous_value |-> change.previousValue,
     new_value      |-> change.newValue,
     changed_at     |-> change.changedAt[1]]

\* createFlag with INSERT OR REPLACE INTO feature_flags: a flag of the same id
\* is replaced
createFlagReplacing(input) ==
    LET idGiven == input.id # None /\ input.id[1] # ""
        id == IF idGiven THEN input.id[1] ELSE Uuid(nextId)
        changeId == IF idGiven THEN nextId ELSE nextId + 1
        flag == [id |-> id, name |-> input.name, enabled |-> input.enabled,
                 rolloutPercentage |-> input.rolloutPercentage,
                 createdAt |-> clock, updatedAt |-> clock]
        row == [id |-> id, name |-> input.name,
                enabled |-> IF input.enabled THEN 1 ELSE 0,
                rollout_percentage |-> IF input.rolloutPercentage = None
                                       THEN 0 ELSE input.rolloutPercentage[1],
                created_at |-> clock, updated_at |-> clock]
        change == [id |-> Some(Uuid(changeId)), flagId |-> id, flagName |-> input.name,
                   changeType |-> "created", previousValue |-> None,
                   newValue |-> Some([enabled |-> input.enabled,
                                      rolloutPercentage |-> input.rolloutPercentage]),
                   changedAt |-> Some(clock)]
    IN
    /\ feature_flags' = Append(SelectSeq(feature_flags, LAMBDA r : r.id # id), row)
    /\ flag_changes' = Append(flag_changes, ChangeRow(change))
    /\ outbox' = broadcast([type |-> "flag_created", payload |-> flag])
    /\ response' = [NoResponse EXCEPT !.op = "createFlag", !.status = 201,
                                      !.flagId = id]
    /\ clock' = clock + 1
    /\ nextId' = changeId + 1
    /\ UNCHANGED <<impact_metrics, predictions, anomalies, sessions, pending,
                   lastScan, conversations, broken>>

\* createFlag without its call of recordFlagChange
createFlagUnrecorded(input) ==
    LET idGiven == input.id # None /\ input.id[1] # ""
        id == IF idGiven THEN input.id[1] ELSE Uuid(nextId)
        flag == [id |-> id, name |-> input.name, enabled |-> input.enabled,
                 rolloutPercentage |-> input.rolloutPercentage,
                 createdAt |-> clock, updatedAt |-> clock]
        row == [id |-> id, name |-> input.name,
                enabled |-> IF input.enabled THEN 1 ELSE 0,
                rollout_percentage |-> IF input.rolloutPercentage = None
                                       THEN 0 ELSE input.rolloutPercentage[1],
                created_at |-> clock, updated_at |-> clock]
    IN
    /\ ~HasRow(feature_flags, id)
    /\ feature_flags' = Append(feature_flags, row)
    /\ outbox' = broadcast([type |-> "flag_created", payload |-> flag])
    /\ response' = [NoResponse EXCEPT !.op = "createFlag", !.status = 201,
                                      !.flagId = id]
    /\ clock' = clock + 1
    /\ nextId' = IF idGiven THEN nextId ELSE nextId + 1
    /\ UNCHANGED <<flag_changes, impact_metrics, predictions, anomalies, sessions,
                   pending, lastScan, conversations, broken>>

createFlag(input) ==
    LET idGiven == input.id # None /\ input.id[1] # ""
        id == IF idGiven THEN input.id[1] ELSE Uuid(nextId)
        changeId == IF idGiven THEN nextId ELSE nextId + 1
        flag == [id |-> id, name |-> input.name, enabled |-> input.enabled,
                 rolloutPercentage |-> input.rolloutPercentage,
                 createdAt |-> clock, updatedAt |-> clock]
        row == [id |-> id, name |-> input.name,
                enabled |-> IF input.enabled THEN 1 ELSE 0,
                rollout_percentage |-> IF input.rolloutPercentage = None
                                       THEN 0 ELSE input.rolloutPercentage[1],
                created_at |-> clock, updated_at |-> clock]
        change == [id |-> Some(Uuid(changeId)), flagId |-> id, flagName |-> input.name,
                   changeType |-> "created", previousValue |-> None,
                   newValue |-> Some([enabled |-> input.enabled,
                                      rolloutPercentage |-> input.rolloutPercentage]),
                   changedAt |-> Some(clock)]
    IN
    IF HasRow(feature_flags, id)
    THEN \* the INSERT violates the primary key and the handler throws
         /\ response' = ErrorResponse("createFlag", id)
         /\ outbox' = <<>>
         /\ UNCHANGED <<feature_flags, flag_changes, impact_metrics, predictions,
                        anomalies, sessions, pending, lastScan, clock, nextId,
                   conversations, broken>>
    ELSE /\ feature_flags' = Append(feature_flags, row)
         /\ flag_changes' = Append(flag_changes, ChangeRow(change))
         /\ outbox' = broadcast([type |-> "flag_created", payload |-> flag])
         /\ response' = [NoResponse EXCEPT !.op = "createFlag", !.status = 201,
                                           !.flagId = id]
         /\ clock' = clock + 1
         /\ nextId' = changeId + 1
         /\ UNCHANGED <<impact_metrics, predictions, anomalies, sessions, pending,
                        lastScan,
                   conversations, broken>>

-----------------------------------------------------------------------------
(* recordChange: POST /flags/change, up to generatePrediction's model call *)

\* recordFlagChange's defaults: change.id || randomUUID(), change.changedAt || now
WithDefaults(change) ==
    [change EXCEPT !.id = IF change.id = None \/ change.id[1] = ""
                          THEN Some(Uuid(nextId)) ELSE change.id,
                   !.changedAt = IF change.changedAt = None
                                 THEN Some(clock) ELSE change.changedAt]

\* recordChange with the change log write put off until after the prediction
recordChangeDeferred(input) ==
    LET change == WithDefaults(input) IN
    /\ ~HasRow(flag_changes, change.id[1])
    /\ pending' = Append(pending, [op |-> "recordChange", change |-> change,
                                   flag |-> None])
    /\ outbox' = <<>>
    /\ clock' = clock + 1
    /\ nextId' = IF change.id = input.id THEN nextId ELSE nextId + 1
    /\ UNCHANGED <<feature_flags, flag_changes, impact_metrics, predictions, anomalies,
                   sessions, response, lastScan, conversations, broken>>

recordChange(input) ==
    LET change == WithDefaults(input) IN
    IF HasRow(flag_changes, change.id[1])
    THEN \* the INSERT violates the primary key and the handler throws
         /\ response' = ErrorResponse("recordChange", change.flagId)
         /\ outbox' = <<>>
         /\ UNCHANGED <<feature_flags, flag_changes, impact_metrics, predictions,
                        anomalies, sessions, pending, lastScan, clock, nextId,
                   conversations, broken>>
    ELSE /\ flag_changes' = Append(flag_changes, ChangeRow(change))
         /\ pending' = Append(pending,
               [op |-> "recordChange", change |-> change, flag |-> None,
                recentChanges |-> RecentChanges(Append(flag_changes, ChangeRow(change)),
                                                change.flagId),
                promptHistory |-> PromptHistory(
                    RecentChanges(Append(flag_changes, ChangeRow(change)),
                                  change.flagId))])
         /\ outbox' = <<>>
         /\ clock' = clock + 1
         /\ nextId' = IF change.id = input.id THEN nextId ELSE nextId + 1
         /\ UNCHANGED <<feature_flags, impact_metrics, predictions, anomalies,
                        sessions, response, lastScan,
                   conversations, broken>>

-----------------------------------------------------------------------------
(* analyzeFlag: POST /analyze, up to generatePrediction's model call *)

\* analyzeFlag without its check that the flag exists
analyzeFlagUnchecked(flagId) ==
    LET change == [id |-> Some(Uuid(nextId)), flagId |-> flagId,
                   flagName |-> "", changeType |-> "enabled",
                   previousValue |-> None, newValue |-> None,
                   changedAt |-> Some(clock)]
    IN
    /\ pending' = Append(pending, [op |-> "analyzeFlag", change |-> change,
                                   flag |-> None])
    /\ outbox' = <<>>
    /\ nextId' = nextId + 1
    /\ UNCHANGED <<feature_flags, flag_changes, impact_metrics, predictions,
                   anomalies, sessions, response, lastScan, clock,
                   conversations, broken>>

analyzeFlag(flagId) ==
    LET found == FlagQuery(flagId) IN
    IF found = <<>>
    THEN /\ response' = [NoResponse EXCEPT !.op = "analyzeFlag", !.status = 404,
                                           !.flagId = flagId]
         /\ outbox' = <<>>
         /\ UNCHANGED <<feature_flags, flag_changes, impact_metrics, predictions,
                        anomalies, sessions, pending, lastScan, clock, nextId,
                   conversations, broken>>
    ELSE LET flag == found[1]
             \* newValue is the stored row: it has rollout_percentage, no rolloutPercentage
             change == [id |-> Some(Uuid(nextId)), flagId |-> flag.id,
                        flagName |-> flag.name, changeType |-> "enabled",
                        previousValue |-> None,
                        newValue |-> Some([enabled |-> flag.enabled = 1,
                                           rolloutPercentage |-> None]),
                        changedAt |-> Some(clock)]
         IN
         /\ pending' = Append(pending,
               [op |-> "analyzeFlag", change |-> change, flag |-> Some(flag),
                recentChanges |-> RecentChanges(flag_changes, flag.id),
                promptHistory |-> PromptHistory(RecentChanges(flag_changes, flag.id))])
         /\ outbox' = <<>>
         /\ nextId' = nextId + 1
         /\ UNCHANGED <<feature_flags, flag_changes, impact_metrics, predictions,
                        anomalies, sessions, response, lastScan, clock,
                   conversations, broken>>

-----------------------------------------------------------------------------
(* The model's reply.  Its text is a sequence of tokens: "prose" is text   *)
(* without braces, "open" and "close" are a lone { and }, and "object" is  *)
(* the text of one well-formed JSON object, of which v holds the members   *)
(* generatePrediction reads (a missing member is None).                    *)

Prose == [k |-> "prose"]
Open == [k |-> "open"]
Close == [k |-> "close"]
Object(v) == [k |-> "object", v |-> v]

EmptyObject ==
    [riskLevel |-> None, riskScore |-> None, predictedImpact |-> None,
     recommendations |-> None, reasoning |-> None, confidence |-> None]

\* responseText.match(/\{[\s\S]*\}/): from the first { that has a } after it to the
\* last }; None when there is no match
JsonMatch(text) ==
    LET opens  == {i \in 1..Len(text) : text[i].k \in {"open", "object"}}
        closes == {i \in 1..Len(text) : text[i].k \in {"close", "object"}}
    IN
    IF opens = {} \/ closes = {} THEN None
    ELSE LET first == CHOOSE i \in opens : \A j \in opens : i <= j
             last  == CHOOSE i \in closes : \A j \in closes : j <= i
         IN  IF last > first \/ (last = first /\ text[first].k = "object")
             THEN Some(SubSeq(text, first, last))
             ELSE None

\* JSON.parse of the matched text: the object, or None when it throws
JsonParse(matched) ==
    IF Len(matched) = 1 /\ matched[1].k = "object" THEN Some(matched[1].v)
    ELSE IF matched = <<Open, Close>> THEN Some(EmptyObject)
    ELSE None

ZeroImpact ==
    [errorRateChange |-> 0, latencyChange |-> 0, userImpactPercentage |-> 0]

\* the object the catch around JSON.parse substitutes
ParseFailureFallback ==
    [riskLevel       |-> Some("medium"),
     riskScore       |-> Some(DefaultRiskScore),
     predictedImpact |-> Some(ZeroImpact),
     recommendations |-> Some(<<"Monitor closely after deployment">>),
     reasoning       |-> Some("Unable to fully analyze - recommend manual review"),
     confidence      |-> Some(ParseFailureConfidence)]

\* aiResponse.response || '{}', then the extraction and the parse
ParsedResponse(aiResponse) ==
    LET responseText == IF aiResponse = None \/ aiResponse[1] = <<>>
                        THEN <<Open, Close>> ELSE aiResponse[1]
        jsonMatch == JsonMatch(responseText)
    IN
    IF jsonMatch = None THEN EmptyObject
    ELSE LET parsed == JsonParse(jsonMatch[1]) IN
         IF parsed = None THEN ParseFailureFallback ELSE parsed[1]

\* v || d for a number, a string and an object or array
OrNumber(v, d) == IF v = None \/ v[1] = 0 THEN d ELSE v[1]
OrString(v, d) == IF v = None \/ v[1] = "" THEN d ELSE v[1]
OrObject(v, d) == IF v = None THEN d ELSE v[1]

\* change.newValue?.rolloutPercentage || 0
RolloutOf(change) ==
    IF change.newValue = None THEN 0
    ELSE OrNumber(change.newValue[1].rolloutPercentage, 0)

\* the prediction built from the parsed response
BuildPrediction(change, parsedResponse) ==
    [flagId          |-> change.flagId,
     flagName        |-> change.flagName,
     riskLevel       |-> OrString(parsedResponse.riskLevel, "medium"),
     riskScore       |-> OrNumber(parsedResponse.riskScore, DefaultRiskScore),
     predictedImpact |-> OrObject(parsedResponse.predictedImpact,
                                  [errorRateChange |-> 0, latencyChange |-> 0,
                                   userImpactPercentage |-> RolloutOf(change)]),
     recommendations |-> OrObject(parsedResponse.recommendations, <<>>),
     reasoning       |-> OrString(parsedResponse.reasoning, ""),
     confidence      |-> OrNumber(parsedResponse.confidence, DefaultConfidence),
     generatedAt     |-> clock]

\* A variant of the call-failure prediction: the parse-failure values
CallFailureAsParseFailure(change) ==
    [flagId          |-> change.flagId,
     flagName        |-> change.flagName,
     riskLevel       |-> "medium",
     riskScore       |-> DefaultRiskScore,
     predictedImpact |-> ZeroImpact,
     recommendations |-> <<"Monitor closely after deployment">>,
     reasoning       |-> "Unable to fully analyze - recommend manual review",
     confidence      |-> ParseFailureConfidence,
     generatedAt     |-> clock]

\* the prediction returned when the model call throws
CallFailurePrediction(change) ==
    [flagId          |-> change.flagId,
     flagName        |-> change.flagName,
     riskLevel       |-> "medium",
     riskScore       |-> DefaultRiskScore,
     predictedImpact |-> ZeroImpact,
     recommendations |-> <<"Manual review recommended due to analysis error">>,
     reasoning       |-> "Automated analysis unavailable",
     confidence      |-> CallFailureConfidence,
     generatedAt     |-> clock]

PredictionRow(prediction) ==
    [flag_id          |-> prediction.flagId,
     flag_name        |-> prediction.flagName,
     risk_level       |-> prediction.riskLevel,
     risk_score       |-> prediction.riskScore,
     predicted_impact |-> prediction.predictedImpact,
     recommendations  |-> prediction.recommendations,
     reasoning        |-> prediction.reasoning,
     confidence       |-> prediction.confidence,
     generated_at     |-> prediction.generatedAt]

\* A variant of the insertion: a plain INSERT into a table without the primary key
InsertOnly(table, row) == Append(table, row)

\* INSERT OR REPLACE INTO predictions: the row of the same flag_id is deleted first
InsertOrReplace(table, row) ==
    Append(SelectSeq(table, LAMBDA r : r.flag_id # row.flag_id), row)

-----------------------------------------------------------------------------
(* The model call returns or throws: generatePrediction runs to its end,   *)
(* and the suspended handler (recordChange or analyzeFlag) after it.       *)

\* generatePrediction from the model call on: the prediction returned, and the table
generatePrediction(change, outcome) ==
    IF outcome.ok
    THEN LET prediction == BuildPrediction(change, ParsedResponse(outcome.response)) IN
         [prediction |-> prediction,
          table |-> InsertOrReplace(predictions, PredictionRow(prediction))]
    ELSE [prediction |-> CallFailurePrediction(change), table |-> predictions]

Resume(i, outcome) ==
    LET task == pending[i]
        change == task.change
        generated == generatePrediction(change, outcome)
        created == detectAnomalies(impact_metrics, change.flagId)
        flagChanged == [type |-> "flag_changed",
                        payload |-> [change |-> change,
                                     prediction |-> generated.prediction]]
    IN
    /\ predictions' = generated.table
    /\ anomalies' = anomalies \o created
    /\ lastScan' = ScanRecord(impact_metrics, change.flagId, created)
    /\ outbox' = BroadcastAll(AnomalyFrames(created))
                    \o (IF task.op = "recordChange" THEN broadcast(flagChanged) ELSE <<>>)
    /\ response' = [op |-> task.op, status |-> 200, flagId |-> change.flagId,
                    prediction |-> Some(generated.prediction), ai |-> Some(outcome),
                    displaced |-> IF outcome.ok
                                  THEN SelectSeq(predictions,
                                                 LAMBDA r : r.flag_id = change.flagId)
                                  ELSE None,
                    reply |-> None]
    /\ pending' = RemoveAt(pending, i)
    /\ clock' = clock + 1
    /\ nextId' = nextId + Len(created)
    /\ UNCHANGED <<feature_flags, flag_changes, impact_metrics, sessions,
                   conversations, broken>>

-----------------------------------------------------------------------------
(* Chat: POST /chat and the socket message of type chat.  A text is a      *)
(* sequence of tokens; a fixed string is one token carrying it.            *)

Text(string) == << [k |-> "text", s |-> string] >>

\* the reply when the model returns no text, and the one when the call throws
EmptyReplyApology ==
    Text("I apologize, but I encountered an issue processing your request. Please try again.")
ChatErrorReply ==
    Text("I encountered an error processing your request. Please try again.")

\* SELECT * FROM anomalies WHERE resolved = 0 ORDER BY detected_at DESC LIMIT 20
getRecentAnomalies ==
    Limit(OrderByDesc(SelectSeq(anomalies, LAMBDA a : ~a.resolved), "detected_at"),
          RecentAnomaliesLimit)

\* SELECT * FROM predictions ORDER BY generated_at DESC, each row with its two
\* JSON columns parsed under the names predictedImpact and recommendations
getAllPredictions ==
    LET rows == OrderByDesc(predictions, "generated_at") IN
    [i \in 1..Len(rows) |->
        [flag_id |-> rows[i].flag_id, flag_name |-> rows[i].flag_name,
         risk_level |-> rows[i].risk_level, risk_score |-> rows[i].risk_score,
         predicted_impact |-> rows[i].predicted_impact,
         recommendations |-> rows[i].recommendations,
         reasoning |-> rows[i].reasoning, confidence |-> rows[i].confidence,
         generated_at |-> rows[i].generated_at,
         predictedImpact |-> rows[i].predicted_impact]]

\* A variant of the history query without its WHERE session_id = ?
HistoryOfAll(table, sessionId) ==
    LET rows == Limit(OrderByDesc(table, "timestamp"), HistoryLimit)
    IN  [i \in 1..Len(rows) |-> rows[Len(rows) + 1 - i]]

\* SELECT * FROM conversations WHERE session_id = ? ORDER BY timestamp DESC LIMIT 10,
\* reversed
History(table, sessionId) ==
    LET rows == Limit(OrderByDesc(SelectSeq(table, LAMBDA r : r.session_id = sessionId),
                                  "timestamp"), HistoryLimit)
    IN  [i \in 1..Len(rows) |-> rows[Len(rows) + 1 - i]]

\* the messages of the model call: the system prompt, the history mapped to role
\* and content, and the new message
ChatMessages(history, message) ==
    << [role |-> "system", content |-> Text("system prompt")] >>
       \o [i \in 1..Len(history) |->
             [role |-> history[i].role, content |-> history[i].content]]
       \o << [role |-> "user", content |-> message] >>

\* processChat up to the model call: the user message is stored, the history and
\* the counts of the context are read, and the handler waits.  socket is the
\* session whose message listener called, None for POST /chat.
processChat(message, sessionId, socket, firstId) ==
    LET row == [id |-> Uuid(firstId), session_id |-> sessionId, role |-> "user",
                content |-> message, timestamp |-> clock]
        table == Append(conversations, row)
    IN
    /\ conversations' = table
    /\ pending' = Append(pending,
          [op |-> "chat", sessionId |-> sessionId, socket |-> socket,
           history |-> History(table, sessionId),
           messages |-> ChatMessages(History(table, sessionId), message),
           context |-> [flagCount |-> Len(feature_flags),
                        anomalyCount |-> Len(getRecentAnomalies),
                        predictionCount |-> Len(getAllPredictions)]])
    /\ outbox' = <<>>
    /\ clock' = clock + 1
    /\ nextId' = firstId + 1
    /\ UNCHANGED <<feature_flags, flag_changes, impact_metrics, predictions, anomalies,
                   sessions, broken, response, lastScan>>

\* POST /chat: sessionId || crypto.randomUUID()
handleChat(input) ==
    IF input.sessionId = None \/ input.sessionId[1] = ""
    THEN processChat(input.message, Uuid(nextId), None, nextId + 1)
    ELSE processChat(input.message, input.sessionId[1], None, nextId)

\* a send on one socket outside broadcast: nothing is delivered when it throws
SendTo(sessionId, frame) ==
    IF (\E i \in 1..Len(sessions) : sessions[i] = sessionId) /\ sessionId \notin broken
    THEN << [to |-> sessionId, frame |-> frame] >>
    ELSE <<>>

\* A variant of the end of processChat that stores the error reply as an
\* assistant message when the model call throws
ChatOutcomeLogged(task, outcome) ==
    LET assistantMessage ==
            IF ~outcome.ok THEN ChatErrorReply
            ELSE IF outcome.response = None \/ outcome.response[1] = <<>>
            THEN EmptyReplyApology ELSE outcome.response[1]
    IN  [reply |-> [message |-> assistantMessage, sessionId |-> task.sessionId,
                    context |-> IF outcome.ok THEN Some(task.context) ELSE None],
         rows |-> << [id |-> Uuid(nextId), session_id |-> task.sessionId,
                      role |-> "assistant", content |-> assistantMessage,
                      timestamp |-> clock] >>]

\* processChat from the model call on: what it returns and the rows it stores
ChatOutcome(task, outcome) ==
    IF outcome.ok
    THEN LET assistantMessage ==
                 IF outcome.response = None \/ outcome.response[1] = <<>>
                 THEN EmptyReplyApology ELSE outcome.response[1]
         IN  [reply |-> [message |-> assistantMessage, sessionId |-> task.sessionId,
                         context |-> Some(task.context)],
              rows |-> << [id |-> Uuid(nextId), session_id |-> task.sessionId,
                           role |-> "assistant", content |-> assistantMessage,
                           timestamp |-> clock] >>]
    ELSE [reply |-> [message |-> ChatErrorReply, sessionId |-> task.sessionId,
                     context |-> None],
          rows |-> <<>>]

\* the model call of a chat returns or throws: processChat ends, then handleChat
\* responds or the message listener sends chat_response on its socket
ResumeChat(i, outcome) ==
    LET task == pending[i]
        done == ChatOutcome(task, outcome)
    IN
    /\ conversations' = conversations \o done.rows
    /\ nextId' = nextId + Len(done.rows)
    /\ clock' = clock + 1
    /\ pending' = RemoveAt(pending, i)
    /\ IF task.socket = None
       THEN /\ response' = [NoResponse EXCEPT !.op = "chat", !.status = 200,
                                              !.ai = Some(outcome),
                                              !.reply = Some(done.reply)]
            /\ outbox' = <<>>
       ELSE /\ outbox' = SendTo(task.socket[1],
                                [type |-> "chat_response", payload |-> done.reply])
            /\ UNCHANGED response
    /\ UNCHANGED <<feature_flags, flag_changes, impact_metrics, predictions, anomalies,
                   sessions, broken, lastScan>>

\* A variant of the message listener that closes the channel of a message
\* JSON.parse rejects, after reporting it
onMessageClosing(sessionId, data) ==
    /\ \E i \in 1..Len(sessions) : sessions[i] = sessionId
    /\ IF data # None /\ data[1].type = "chat"
       THEN processChat(data[1].message, sessionId, Some(sessionId), nextId)
       ELSE /\ outbox' =
                 IF data = None
                 THEN SendTo(sessionId, [error |-> "Invalid message format"])
                 ELSE IF data[1].type = "subscribe_anomalies"
                 THEN SendTo(sessionId, [type |-> "subscribed", channel |-> "anomalies",
                                         anomalies |-> getRecentAnomalies])
                 ELSE IF data[1].type = "get_predictions"
                 THEN SendTo(sessionId, [type |-> "predictions",
                                         payload |-> getAllPredictions])
                 ELSE <<>>
            /\ sessions' = IF data = None
                           THEN SelectSeq(sessions, LAMBDA s : s # sessionId)
                           ELSE sessions
            /\ UNCHANGED <<feature_flags, flag_changes, impact_metrics, predictions,
                           anomalies, conversations, broken, pending,
                           response, lastScan, clock, nextId>>

\* the message listener of a session's socket: JSON.parse, then
\* handleWebSocketMessage; data is None when the parse throws
onMessage(sessionId, data) ==
    /\ \E i \in 1..Len(sessions) : sessions[i] = sessionId
    /\ IF data # None /\ data[1].type = "chat"
       THEN processChat(data[1].message, sessionId, Some(sessionId), nextId)
       ELSE /\ outbox' =
                 IF data = None
                 THEN SendTo(sessionId, [error |-> "Invalid message format"])
                 ELSE IF data[1].type = "subscribe_anomalies"
                 THEN SendTo(sessionId, [type |-> "subscribed", channel |-> "anomalies",
                                         anomalies |-> getRecentAnomalies])
                 ELSE IF data[1].type = "get_predictions"
                 THEN SendTo(sessionId, [type |-> "predictions",
                                         payload |-> getAllPredictions])
                 ELSE <<>>
            /\ UNCHANGED <<feature_flags, flag_changes, impact_metrics, predictions,
                           anomalies, conversations, sessions, broken, pending,
                           response, lastScan, clock, nextId>>

\* A variant of GET /anomalies that answers with the listing of GET /predictions
getAnomaliesOfPredictions ==
    /\ response' = [NoResponse EXCEPT !.op = "getAnomalies", !.status = 200,
                                      !.reply = Some(getAllPredictions)]
    /\ outbox' = <<>>
    /\ UNCHANGED <<feature_flags, flag_changes, impact_metrics, predictions, anomalies,
                   conversations, sessions, broken, pending, lastScan, clock, nextId>>

\* getAnomalies: GET /anomalies
getAnomalies ==
    /\ response' = [NoResponse EXCEPT !.op = "getAnomalies", !.status = 200,
                                      !.reply = Some(getRecentAnomalies)]
    /\ outbox' = <<>>
    /\ UNCHANGED <<feature_flags, flag_changes, impact_metrics, predictions, anomalies,
                   conversations, sessions, broken, pending, lastScan, clock, nextId>>

\* a socket starts to throw on send before its close event is delivered
onSocketFailure(sessionId) ==
    /\ \E i \in 1..Len(sessions) : sessions[i] = sessionId
    /\ sessionId \notin broken
    /\ broken' = broken \cup {sessionId}
    /\ outbox' = <<>>
    /\ UNCHANGED <<feature_flags, flag_changes, impact_metrics, predictions, anomalies,
                   conversations, sessions, pending, response, lastScan, clock, nextId>>

AiReturns(i, aiResponse) ==
    IF pending[i].op = "chat"
    THEN ResumeChat(i, [ok |-> TRUE, response |-> aiResponse])
    ELSE Resume(i, [ok |-> TRUE, response |-> aiResponse])

AiThrows(i) ==
    IF pending[i].op = "chat"
    THEN ResumeChat(i, [ok |-> FALSE, response |-> None])
    ELSE Resume(i, [ok |-> FALSE, response |-> None])

-----------------------------------------------------------------------------
(* The agent under its whole interface, with small inputs *)

Range(s) == {s[i] : i \in 1..Len(s)}

FlagInputs ==
    { [id |-> Some("f1"), name |-> "alpha", enabled |-> FALSE,
       rolloutPercentage |-> Some(25)],
      [id |-> None, name |-> "beta", enabled |-> TRUE, rolloutPercentage |-> None] }

ChangeInputs ==
    { [id |-> None, flagId |-> "f1", flagName |-> "alpha", changeType |-> "enabled",
       previousValue |-> None,
       newValue |-> Some([enabled |-> TRUE, rolloutPercentage |-> Some(50)]),
       changedAt |-> None],
      [id |-> Some("c1"), flagId |-> "f9", flagName |-> "ghost",
       changeType |-> "rollout_changed", previousValue |-> None, newValue |-> None,
       changedAt |-> Some(0)] }

MetricInputs ==
    { [flagId |-> "f1", timestamp |-> None, errorRate |-> 1, latencyP50 |-> 50] }

FullObject ==
    [riskLevel |-> Some("high"), riskScore |-> Some(80),
     predictedImpact |-> Some([errorRateChange |-> 2, latencyChange |-> 10,
                               userImpactPercentage |-> 50]),
     recommendations |-> Some(<<"Roll out gradually">>),
     reasoning |-> Some("Large rollout step"), confidence |-> Some(9)]

ZeroObject == [FullObject EXCEPT !.riskScore = Some(0), !.confidence = Some(0)]

AiResponses ==
    { None,
      Some(<<Prose>>),
      Some(<<Prose, Object(FullObject), Prose>>),
      Some(<<Object(ZeroObject)>>),
      Some(<<Open, Prose, Close>>),
      Some(<<Close, Open>>) }

Next ==
    \/ /\ nextId < MaxIds
       /\ handleWebSocket
    \/ \E s \in Range(sessions) : onClose(s)
    \/ /\ clock < MaxClock /\ nextId < MaxIds
       /\ \E input \in FlagInputs : createFlag(input)
    \/ /\ clock < MaxClock /\ nextId < MaxIds
       /\ Len(flag_changes) < MaxChanges /\ Len(pending) < MaxPending
       /\ \E input \in ChangeInputs : recordChange(input)
    \/ /\ clock < MaxClock
       /\ Len(impact_metrics) < MaxMetrics
       /\ \E input \in MetricInputs : recordMetrics(input)
    \/ /\ clock < MaxClock /\ nextId < MaxIds
       /\ Len(pending) < MaxPending
       /\ \E flagId \in {"f1", "f9"} : analyzeFlag(flagId)
    \/ \E i \in 1..Len(pending) : \E aiResponse \in AiResponses : AiReturns(i, aiResponse)
    \/ \E i \in 1..Len(pending) : AiThrows(i)

Spec == Init /\ [][Next]_vars

-----------------------------------------------------------------------------
(* The detector under richer metric samples, ingested one request at a     *)
(* time.  A sample without timestamp gets the clock's; the backdated       *)
(* sample carries its own, older than every other (distinct timestamps:    *)
(* the order of rows of equal timestamp is the SQL engine's choice).       *)

ErrorRateInputs == {0, 1, 2, 5}
LatencyInputs == {50, 95, 100, 150, 160}

ErrorSamples ==
    { [flagId |-> "f1", timestamp |-> None, errorRate |-> e, latencyP50 |-> 50] :
        e \in ErrorRateInputs }
    \cup { [flagId |-> "f1", timestamp |-> Some(0), errorRate |-> 5, latencyP50 |-> 50] }

LatencySamples ==
    { [flagId |-> "f1", timestamp |-> None, errorRate |-> 1, latencyP50 |-> l] :
        l \in LatencyInputs }

FreshTimestamp(input) ==
    IF input.timestamp = None THEN TRUE
    ELSE \A i \in 1..Len(impact_metrics) :
            impact_metrics[i].flag_id = input.flagId
                => impact_metrics[i].timestamp # input.timestamp[1]

NextError ==
    /\ Len(impact_metrics) < MaxSamples
    /\ \E input \in ErrorSamples : FreshTimestamp(input) /\ recordMetrics(input)

NextLatency ==
    /\ Len(impact_metrics) < MaxSamples
    /\ \E input \in LatencySamples : recordMetrics(input)

ErrorSpec == Init /\ [][NextError]_vars
LatencySpec == Init /\ [][NextLatency]_vars

-----------------------------------------------------------------------------
(* The three triggers of a scan: a client may connect and the flag may be  *)
(* created before ingestion starts; samples of two flags are ingested;     *)
(* change and analyze-by-id requests follow the ingestion.                 *)

ScanFlag == [id |-> Some("f1"), name |-> "alpha", enabled |-> TRUE,
             rolloutPercentage |-> Some(100)]

ScanChange ==
    [id |-> None, flagId |-> "f1", flagName |-> "alpha", changeType |-> "rollout_changed",
     previousValue |-> None,
     newValue |-> Some([enabled |-> TRUE, rolloutPercentage |-> Some(50)]),
     changedAt |-> None]

ScanSamples ==
    { [flagId |-> "f1", timestamp |-> None, errorRate |-> 1, latencyP50 |-> 50],
      [flagId |-> "f1", timestamp |-> None, errorRate |-> 5, latencyP50 |-> 50],
      [flagId |-> "f2", timestamp |-> None, errorRate |-> 5, latencyP50 |-> 50] }

Ingesting == pending = <<>> /\ response.op \notin {"recordChange", "analyzeFlag"}

ScansLeft == lastScan.seq - Len(impact_metrics) + Len(pending) < MaxScans

NextScan ==
    \/ /\ sessions = <<>> /\ feature_flags = <<>> /\ impact_metrics = <<>>
       /\ flag_changes = <<>>
       /\ handleWebSocket
    \/ /\ feature_flags = <<>> /\ impact_metrics = <<>> /\ flag_changes = <<>>
       /\ createFlag(ScanFlag)
    \/ /\ Ingesting /\ Len(impact_metrics) < MaxScanSamples
       /\ \E input \in ScanSamples : recordMetrics(input)
    \/ /\ ScansLeft /\ pending = <<>>
       /\ recordChange(ScanChange)
    \/ /\ ScansLeft /\ pending = <<>>
       /\ analyzeFlag("f1")
    \/ \E i \in 1..Len(pending) : AiReturns(i, None)

ScanSpec == Init /\ [][NextScan]_vars

-----------------------------------------------------------------------------
(* Every operation of the agent: the HTTP requests, the socket messages,   *)
(* sockets that open, close and fail, and model calls that return or throw *)

\* POST /chat bodies, with and without a session id
ChatInputs ==
    { [message |-> Text("Which flags are risky?"), sessionId |-> None],
      [message |-> Text("Which flags are risky?"), sessionId |-> Some("s1")] }

\* socket messages: one that JSON.parse rejects, a chat with and without a message,
\* the two queries and a type the switch does not know
SocketMessages ==
    { None,
      Some([type |-> "chat", message |-> Text("Any anomalies?")]),
      Some([type |-> "chat", message |-> <<>>]),
      Some([type |-> "subscribe_anomalies"]),
      Some([type |-> "get_predictions"]),
      Some([type |-> "ping"]) }

\* what the model returns to a chat: no text, or a text
ChatReplies == { None, Some(<<Prose>>) }

AllFlag == [id |-> Some("f1"), name |-> "alpha", enabled |-> FALSE,
            rolloutPercentage |-> Some(25)]

AllChange ==
    [id |-> Some("c1"), flagId |-> "f1", flagName |-> "alpha", changeType |-> "enabled",
     previousValue |-> None,
     newValue |-> Some([enabled |-> TRUE, rolloutPercentage |-> Some(50)]),
     changedAt |-> None]

AllSample == [flagId |-> "f1", timestamp |-> None, errorRate |-> 1, latencyP50 |-> 50]

CanStart == clock < MaxAllClock /\ nextId < MaxAllIds

CanAwait == CanStart /\ Len(pending) < MaxPending

NextAll ==
    \/ /\ nextId < MaxAllIds /\ Len(sessions) < MaxAllSessions
       /\ handleWebSocket
    \/ \E s \in Range(sessions) : onClose(s)
    \/ \E s \in Range(sessions) : onSocketFailure(s)
    \/ /\ CanStart
       /\ createFlag(AllFlag)
    \/ /\ CanAwait
       /\ recordChange(AllChange)
    \/ /\ CanStart
       /\ recordMetrics(AllSample)
    \/ /\ CanAwait
       /\ analyzeFlag("f1")
    \/ /\ CanAwait /\ Len(conversations) < MaxMessages
       /\ \E input \in ChatInputs : handleChat(input)
    \/ \E s \in Range(sessions) : \E data \in SocketMessages :
          /\ data # None /\ data[1].type = "chat"
                => CanAwait /\ Len(conversations) < MaxMessages
          /\ onMessage(s, data)
    \/ \E i \in 1..Len(pending) : \E aiResponse \in ChatReplies : AiReturns(i, aiResponse)
    \/ \E i \in 1..Len(pending) : AiThrows(i)

AllSpec == Init /\ [][NextAll]_vars

-----------------------------------------------------------------------------
(* The fan-out to several sockets, some of which throw on send: clients    *)
(* connect, query, close and fail while flags are created and changes      *)
(* recorded                                                                *)

FanoutReplies == { None, Some(<<Object(FullObject)>>) }

NextFanout ==
    \/ /\ nextId < MaxIds /\ Len(sessions) < MaxSessions
       /\ handleWebSocket
    \/ \E s \in Range(sessions) : onClose(s)
    \/ \E s \in Range(sessions) : onSocketFailure(s)
    \/ /\ clock < MaxClock /\ nextId < MaxIds
       /\ createFlag(AllFlag)
    \/ /\ clock < MaxClock /\ nextId < MaxIds /\ Len(pending) < MaxPending
       /\ recordChange(AllChange)
    \/ \E s \in Range(sessions) : \E data \in SocketMessages :
          /\ IF data = None THEN TRUE ELSE data[1].type # "chat"
          /\ onMessage(s, data)
    \/ \E i \in 1..Len(pending) : \E aiResponse \in FanoutReplies :
          AiReturns(i, aiResponse)
    \/ \E i \in 1..Len(pending) : AiThrows(i)

FanoutSpec == Init /\ [][NextFanout]_vars

-----------------------------------------------------------------------------
(* The change log under callers that declare any change type: flags are    *)
(* created, and changes of every type, "created" included, are recorded    *)
(* for flags that exist and flags that do not                              *)

ChangeTypes == {"created", "enabled", "disabled", "rollout_changed", "deleted"}

DeclaredChanges ==
    { [id |-> None, flagId |-> flagId, flagName |-> "alpha", changeType |-> type,
       previousValue |-> None, newValue |-> None, changedAt |-> None] :
         flagId \in {"f1", "f9"}, type \in ChangeTypes }

NextLog ==
    \/ /\ clock < MaxClock /\ nextId < MaxIds
       /\ \E input \in FlagInputs : createFlag(input)
    \/ /\ clock < MaxClock /\ nextId < MaxIds
       /\ Len(flag_changes) < MaxChanges /\ Len(pending) < MaxPending
       /\ \E input \in DeclaredChanges : recordChange(input)
    \/ \E i \in 1..Len(pending) : AiReturns(i, None)
    \/ \E i \in 1..Len(pending) : AiThrows(i)

LogSpec == Init /\ [][NextLog]_vars

-----------------------------------------------------------------------------
(* Long conversations: chats of two sessions over POST /chat, one at a     *)
(* time and each answered by the model, until the log of a session is      *)
(* longer than the history the model is given                              *)

ChatSessions == {"s1", "s2"}

NextChat ==
    \/ /\ Len(conversations) < MaxChatMessages /\ pending = <<>>
       /\ \E sessionId \in ChatSessions :
             handleChat([message |-> Text("Which flags are risky?"),
                         sessionId |-> Some(sessionId)])
    \/ \E i \in 1..Len(pending) : AiReturns(i, Some(<<Prose>>))

ChatSpec == Init /\ [][NextChat]_vars

-----------------------------------------------------------------------------
(* The anomaly listing.  Clients connect, subscribe and list while metrics *)
(* are ingested, each ingestion running the scan that alone calls          *)
(* createAnomaly, and while a change is recorded and its prediction stored. *)

\* the next sample of a window whose error rate spikes: five samples at 1, then 5
ListingSample ==
    [flagId |-> "f1", timestamp |-> None,
     errorRate |-> IF Len(impact_metrics) < RecentSize THEN 1 ELSE 5,
     latencyP50 |-> 50]

NextListing ==
    \/ /\ Len(sessions) < MaxAllSessions /\ nextId < MaxAllIds
       /\ handleWebSocket
    \/ \E s \in Range(sessions) : onClose(s)
    \/ \E s \in Range(sessions) : onMessage(s, Some([type |-> "subscribe_anomalies"]))
    \/ getAnomalies
    \/ /\ pending = <<>> /\ Len(impact_metrics) < MaxScanSamples
       /\ recordMetrics(ListingSample)
    \/ /\ pending = <<>> /\ flag_changes = <<>>
       /\ recordChange(AllChange)
    \/ \E i \in 1..Len(pending) : AiReturns(i, Some(<<Prose>>))

ListingSpec == Init /\ [][NextListing]_vars

-----------------------------------------------------------------------------
(* Vocabulary of the properties, stated apart from the detector's code *)

RowsOf(table, flagId) == {table[i] : i \in {j \in 1..Len(table) : table[j].flag_id = flagId}}

\* how many rows are newer than r
Rank(rows, r) == Cardinality({q \in rows : q.timestamp > r.timestamp})

\* the 5 newest rows, and the older rows among the 50 newest
RecentOf(rows) == {r \in rows : Rank(rows, r) < 5}
BaselineOf(rows) == {r \in rows : Rank(rows, r) >= 5 /\ Rank(rows, r) < 50}

\* the sum of a column over rows of distinct ids
RECURSIVE ErrorSum(_)
ErrorSum(rows) ==
    IF rows = {} THEN 0
    ELSE LET r == CHOOSE r \in rows : TRUE IN r.error_rate + ErrorSum(rows \ {r})

RECURSIVE LatencySum(_)
LatencySum(rows) ==
    IF rows = {} THEN 0
    ELSE LET r == CHOOSE r \in rows : TRUE IN r.latency_p50 + LatencySum(rows \ {r})

OfType(rows, type) == SelectSeq(rows, LAMBDA a : a.type = type)

\* a step in which detectAnomalies ran, the rows it inserted and the events it sent
ScanRan == lastScan'.seq # lastScan.seq
Inserted == SubSeq(anomalies', Len(anomalies) + 1, Len(anomalies'))
AnomalyEvents(sends) == SelectSeq(sends, LAMBDA m : m.frame.type = "anomaly_detected")

\* the latest scan saw the metrics table as it is now
ScanIsCurrent == lastScan.seq > 0 /\ lastScan.nMetrics = Len(impact_metrics)
ScannedRows == RowsOf(impact_metrics, lastScan.flagId)

\* the n rows last inserted into the anomalies table
LastStored(n) == SubSeq(anomalies, Len(anomalies) - n + 1, Len(anomalies))

-----------------------------------------------------------------------------
(* C1: a scan of a flag that has 5 or fewer metric samples, whichever      *)
(* request triggers it (metrics ingestion, change recording or analyze by  *)
(* id), inserts no anomaly and sends no anomaly_detected event.            *)

C1_NoAnomalyUpToFiveSamples ==
    [][ ScanRan /\ Cardinality(RowsOf(impact_metrics', lastScan'.flagId)) <= 5
          => /\ anomalies' = anomalies
             /\ AnomalyEvents(outbox') = <<>> ]_vars

\* analyze-by-id has scanned a flag of exactly five samples, the second flag's sample
\* making six rows in the table, with a client connected
C1_Witness ==
    /\ response.op = "analyzeFlag" /\ response.status = 200
    /\ ScanIsCurrent /\ lastScan.flagId = "f1"
    /\ Cardinality(RowsOf(impact_metrics, "f1")) = 5
    /\ Len(impact_metrics) = 6
    /\ sessions # <<>>

-----------------------------------------------------------------------------
(* The spike rules as the specification states them, over the samples of   *)
(* a flag: recent the 5 newest, baseline the older ones of the window.     *)

ErrorRuleHolds(rows) ==
    LET recent == RecentOf(rows)
        baseline == BaselineOf(rows)
    IN  /\ baseline # {}
        /\ 2 * ErrorSum(recent) * Cardinality(baseline)
              > 3 * ErrorSum(baseline) * Cardinality(recent)
        /\ ErrorSum(recent) > Cardinality(recent)

LatencyRatioOver(rows, k) ==
    /\ BaselineOf(rows) # {}
    /\ LatencySum(RecentOf(rows)) * Cardinality(BaselineOf(rows))
          > k * LatencySum(BaselineOf(rows)) * Cardinality(RecentOf(rows))

-----------------------------------------------------------------------------
(* C2: with recent the 5 newest samples and baseline the older samples of  *)
(* the window (not empty), a scan inserts an error_spike anomaly exactly   *)
(* when mean(recent.errorRate) > 1.5 * mean(baseline.errorRate) and        *)
(* mean(recent.errorRate) > 1; so a recent mean of 1 or less inserts none. *)

C2_ErrorSpikeRule ==
    ScanIsCurrent /\ BaselineOf(ScannedRows) # {} =>
        LET spikes == Len(OfType(lastScan.created, "error_spike")) IN
        /\ LastStored(Len(lastScan.created)) = lastScan.created
        /\ spikes \in {0, 1}
        /\ spikes = 1 <=> ErrorRuleHolds(ScannedRows)
        /\ ErrorSum(RecentOf(ScannedRows)) <= Cardinality(RecentOf(ScannedRows))
              => spikes = 0

-----------------------------------------------------------------------------
(* C3: given baseline mean error rate 1.0 and recent mean error rate 2.0   *)
(* (ratio exactly 2.0), a scan inserts exactly one error_spike anomaly,    *)
(* of severity critical; with a ratio under 2.0 and above 1.5 it inserts   *)
(* one of severity warning.                                                *)

BaselineMeanIsOne ==
    /\ ScanIsCurrent
    /\ BaselineOf(ScannedRows) # {}
    /\ ErrorSum(BaselineOf(ScannedRows)) = Cardinality(BaselineOf(ScannedRows))

RecentErrorSum == ErrorSum(RecentOf(ScannedRows))

C3_CriticalAtRatioTwo ==
    BaselineMeanIsOne /\ 2 * RecentErrorSum > 15 /\ RecentErrorSum <= 10
        => /\ Len(OfType(lastScan.created, "error_spike")) = 1
           /\ OfType(lastScan.created, "error_spike")[1].severity =
                 IF RecentErrorSum = 10 THEN "critical" ELSE "warning"

-----------------------------------------------------------------------------
(* C4: a scan inserts a latency_spike anomaly exactly when                 *)
(* mean(recent.latencyP50) > 2.0 * mean(baseline.latencyP50); its severity *)
(* is critical when the recent mean exceeds 3.0 times the baseline mean    *)
(* and warning otherwise.                                                  *)

C4_LatencySpikeRule ==
    ScanIsCurrent /\ BaselineOf(ScannedRows) # {} =>
        LET spikes == OfType(lastScan.created, "latency_spike") IN
        /\ LastStored(Len(lastScan.created)) = lastScan.created
        /\ Len(spikes) \in {0, 1}
        /\ Len(spikes) = 1 <=> LatencyRatioOver(ScannedRows, 2)
        /\ Len(spikes) = 1 =>
              spikes[1].severity =
                 IF LatencyRatioOver(ScannedRows, 3) THEN "critical" ELSE "warning"

-----------------------------------------------------------------------------
(* C5: six samples of one flag ingested one request at a time, with        *)
(* increasing timestamps, error rates 1,1,1,1,1,5 and equal p50 latencies: *)
(* the first five ingestions insert no anomaly, and after the sixth the    *)
(* anomalies table holds exactly one row, an error_spike of severity       *)
(* warning.                                                                *)

ScenarioRates == <<1, 1, 1, 1, 1, 5>>

ScenarioPrefix ==
    /\ Len(impact_metrics) <= 6
    /\ \A i \in 1..Len(impact_metrics) :
          /\ impact_metrics[i].flag_id = impact_metrics[1].flag_id
          /\ impact_metrics[i].latency_p50 = impact_metrics[1].latency_p50
          /\ impact_metrics[i].error_rate = ScenarioRates[i]
          /\ i > 1 => impact_metrics[i].timestamp > impact_metrics[i - 1].timestamp

C5_SixSamplesOneWarning ==
    ScenarioPrefix =>
        IF Len(impact_metrics) = 6
        THEN /\ Len(anomalies) = 1
             /\ anomalies[1].type = "error_spike"
             /\ anomalies[1].severity = "warning"
             /\ anomalies[1].flag_id = impact_metrics[1].flag_id
        ELSE anomalies = <<>>

-----------------------------------------------------------------------------
(* C6: detection does not deduplicate.  A scan of the flag the previous    *)
(* scan was of, with no metric sample added since, over a window that      *)
(* satisfies a spike rule, inserts anomalies of the types and severities   *)
(* the previous scan inserted, under ids no stored anomaly has, and sends  *)
(* each of them to every session: the table grows by the same number of    *)
(* rows, one at least, on either scan.                                     *)

Kinds(rows) == [i \in 1..Len(rows) |-> <<rows[i].type, rows[i].severity>>]

C6_ScanRepeatsAnomalies ==
    [][ /\ ScanRan
        /\ lastScan.seq > 0
        /\ lastScan'.flagId = lastScan.flagId
        /\ lastScan'.nMetrics = lastScan.nMetrics
        /\ LET rows == RowsOf(impact_metrics', lastScan'.flagId) IN
           ErrorRuleHolds(rows) \/ LatencyRatioOver(rows, 2)
        => /\ lastScan.created # <<>>
           /\ Kinds(Inserted) = Kinds(lastScan.created)
           /\ Len(anomalies') = Len(anomalies) + Len(lastScan.created)
           /\ \A i \in 1..Len(Inserted) :
                 /\ \A j \in 1..Len(anomalies) : anomalies[j].id # Inserted[i].id
                 /\ \A s \in Range(sessions) :
                       \E k \in 1..Len(outbox') :
                          /\ outbox'[k].to = s
                          /\ outbox'[k].frame =
                                [type |-> "anomaly_detected", payload |-> Inserted[i]] ]_vars

-----------------------------------------------------------------------------
(* Vocabulary of the prediction properties *)

\* a request that waited for the model has completed, and how the call ended
Predicted == response.prediction # None /\ response.ai # None
CallReturned == Predicted /\ response.ai[1].ok
CallThrew == Predicted /\ ~response.ai[1].ok

\* the reply has a text, and no { in it is followed by a }
NothingToExtract ==
    /\ CallReturned
    /\ response.ai[1].response # None
    /\ LET text == response.ai[1].response[1] IN
       /\ text # <<>>
       /\ \A i \in 1..Len(text) : text[i].k # "object"
       /\ \A i, j \in 1..Len(text) : ~(i < j /\ text[i].k = "open" /\ text[j].k = "close")

\* the predictions rows of the flag the completed request was about
StoredFor(flagId) == SelectSeq(predictions, LAMBDA r : r.flag_id = flagId)

\* a prediction as a row of the predictions table
AsRow(p) ==
    [flag_id |-> p.flagId, flag_name |-> p.flagName, risk_level |-> p.riskLevel,
     risk_score |-> p.riskScore, predicted_impact |-> p.predictedImpact,
     recommendations |-> p.recommendations, reasoning |-> p.reasoning,
     confidence |-> p.confidence, generated_at |-> p.generatedAt]

-----------------------------------------------------------------------------
(* C7: when the model call succeeds and nothing can be extracted from its  *)
(* text, the prediction returned and stored is the parse-failure fallback: *)
(* risk level medium, risk score 50, the three impact deltas 0, the single *)
(* recommendation "Monitor closely after deployment", confidence 0.5.      *)

IsParseFailureFallback(riskLevel, riskScore, impact, recommendations, confidence) ==
    /\ riskLevel = "medium"
    /\ riskScore = 50
    /\ impact = [errorRateChange |-> 0, latencyChange |-> 0, userImpactPercentage |-> 0]
    /\ recommendations = <<"Monitor closely after deployment">>
    /\ confidence = 5

C7_NoJsonGivesParseFallback ==
    NothingToExtract =>
        LET p == response.prediction[1]
            stored == StoredFor(response.flagId)
        IN  /\ IsParseFailureFallback(p.riskLevel, p.riskScore, p.predictedImpact,
                                      p.recommendations, p.confidence)
            /\ Len(stored) = 1
            /\ IsParseFailureFallback(stored[1].risk_level, stored[1].risk_score,
                                      stored[1].predicted_impact,
                                      stored[1].recommendations, stored[1].confidence)

-----------------------------------------------------------------------------
(* C8: when the model call fails, the request still completes and returns  *)
(* the low-confidence fallback: risk level medium, score 50, zero deltas,  *)
(* the recommendation "Manual review recommended due to analysis error",   *)
(* the reasoning "Automated analysis unavailable", confidence 0.3; it      *)
(* differs from the parse-failure fallback in recommendation and           *)
(* confidence.                                                             *)

C8_CallFailureFallback ==
    CallThrew =>
        LET p == response.prediction[1] IN
        /\ response.status = 200
        /\ p.flagId = response.flagId
        /\ p.riskLevel = "medium"
        /\ p.riskScore = 50
        /\ p.predictedImpact =
              [errorRateChange |-> 0, latencyChange |-> 0, userImpactPercentage |-> 0]
        /\ p.recommendations = <<"Manual review recommended due to analysis error">>
        /\ p.reasoning = "Automated analysis unavailable"
        /\ p.confidence = 3
        /\ p.recommendations # ParseFailureFallback.recommendations[1]
        /\ p.confidence # ParseFailureFallback.confidence[1]

\* a change request has completed after its model call threw
C8_Witness ==
    /\ CallThrew
    /\ response.op = "recordChange"
    /\ response.prediction[1].confidence = 3

-----------------------------------------------------------------------------
(* C9: after every completed prediction for a flag, however the model call *)
(* ended, the predictions table's row for the flag is the prediction       *)
(* returned to the caller.                                                 *)

C9_StoredIsReturned ==
    Predicted => StoredFor(response.flagId) = <<AsRow(response.prediction[1])>>

-----------------------------------------------------------------------------
(* C10: the predictions table never holds two rows of one flag id; after a *)
(* successful prediction for a flag it holds exactly one row for it, the   *)
(* prediction just made, and the row it held before is gone.               *)

C10_OnePredictionPerFlag ==
    /\ \A i, j \in 1..Len(predictions) :
          i # j => predictions[i].flag_id # predictions[j].flag_id
    /\ CallReturned =>
          /\ StoredFor(response.flagId) = <<AsRow(response.prediction[1])>>
          /\ \A i \in 1..Len(response.displaced) :
                \A j \in 1..Len(predictions) : predictions[j] # response.displaced[i]

\* the second successful prediction for a flag has replaced the first, of another content
C10_Witness ==
    /\ CallReturned
    /\ Len(response.displaced) = 1
    /\ response.displaced[1].flag_id = response.flagId
    /\ response.displaced[1].risk_score # response.prediction[1].riskScore
    /\ Len(StoredFor(response.flagId)) = 1
    /\ StoredFor(response.flagId)[1].risk_score = response.prediction[1].riskScore

-----------------------------------------------------------------------------
(* Vocabulary of the request properties *)

\* a step in which a handler that waited for the model ends
Completes == Len(pending') < Len(pending)

\* a step that ends a request that generated a prediction, and the request's kind
CompletesPrediction(op) ==
    /\ Completes
    /\ response' # response
    /\ response'.op = op
    /\ response'.prediction # None

\* whether the sends hold a frame of the type for the session
Received(sends, sessionId, type) ==
    \E k \in 1..Len(sends) :
        /\ sends[k].to = sessionId
        /\ "type" \in DOMAIN sends[k].frame
        /\ sends[k].frame.type = type

IsPrefix(s, t) == Len(s) <= Len(t) /\ SubSeq(t, 1, Len(s)) = s

-----------------------------------------------------------------------------
(* C11: every prediction generated, by change recording or by analyze by   *)
(* id, is sent together with its originating change to every session of    *)
(* the registry.                                                           *)

C11_PredictionFannedOut ==
    [][ \A op \in {"recordChange", "analyzeFlag"} :
          CompletesPrediction(op) =>
             \A s \in Range(sessions') :
                \E k \in 1..Len(outbox') :
                   /\ outbox'[k].to = s
                   /\ outbox'[k].frame.type = "flag_changed"
                   /\ outbox'[k].frame.payload.prediction = response'.prediction[1]
                   /\ outbox'[k].frame.payload.change.flagId = response'.flagId ]_vars

-----------------------------------------------------------------------------
(* Flag creation and the change log *)

CreatesFlag == Len(feature_flags') = Len(feature_flags) + 1

CreatedRecords(table, flagId) ==
    {i \in 1..Len(table) : table[i].flag_id = flagId /\ table[i].change_type = "created"}

\* the step appends one change record, of type "created" and without previous
\* value, for the flag it stored
AppendsCreatedRecord ==
    LET flag == feature_flags'[Len(feature_flags')] IN
    /\ Len(flag_changes') = Len(flag_changes) + 1
    /\ SubSeq(flag_changes', 1, Len(flag_changes)) = flag_changes
    /\ flag_changes'[Len(flag_changes')].flag_id = flag.id
    /\ flag_changes'[Len(flag_changes')].change_type = "created"
    /\ flag_changes'[Len(flag_changes')].previous_value = None

(* C12, as stated: a successful flag creation appends exactly one change   *)
(* record for the new flag, of type "created" and with previousValue null, *)
(* and at every moment each stored flag has exactly one "created" record.  *)
(* The code violates the second half: POST /flags/change stores whatever   *)
(* change type the caller declares, "created" included.                    *)
C12_ExactlyOneCreatedRecord ==
    [][ /\ CreatesFlag => AppendsCreatedRecord
        /\ \A i \in 1..Len(feature_flags') :
              Cardinality(CreatedRecords(flag_changes', feature_flags'[i].id)) = 1 ]_vars

(* C12, amended: a successful flag creation appends exactly one change     *)
(* record for the new flag, of type "created" and with previousValue null, *)
(* and at every moment each stored flag has at least one "created" record, *)
(* one of them written at the flag's creation time with previousValue null *)
(* (callers of POST /flags/change may declare further ones).               *)
C12_CreationRecorded ==
    [][ /\ CreatesFlag => AppendsCreatedRecord
        /\ \A i \in 1..Len(feature_flags') :
              LET created == CreatedRecords(flag_changes', feature_flags'[i].id) IN
              /\ created # {}
              /\ \E k \in created :
                    /\ flag_changes'[k].previous_value = None
                    /\ flag_changes'[k].changed_at = feature_flags'[i].created_at ]_vars

\* a flag was created, and the caller of POST /flags/change has since declared
\* a second "created" change for it
C12_Witness ==
    /\ \E i \in 1..Len(feature_flags) :
          Cardinality(CreatedRecords(flag_changes, feature_flags[i].id)) = 2
    /\ response.op = "createFlag" /\ response.status = 201

-----------------------------------------------------------------------------
(* Changes and the stored flag *)

\* the step stores one change record
RecordsChange == Len(flag_changes') = Len(flag_changes) + 1

Recorded == flag_changes'[Len(flag_changes')]

StoredFlag(table, flagId) == CHOOSE row \in Range(table) : row.id = flagId

(* C13: after a change of type enabled, disabled or rollout_changed is     *)
(* recorded for an existing flag, the stored flag has been mutated in      *)
(* place: its enabled value and rollout percentage are those of the        *)
(* change's new value and its last-update timestamp has advanced.          *)
C13_FlagMutatedInPlace ==
    [][ ( /\ RecordsChange
          /\ Recorded.change_type \in {"enabled", "disabled", "rollout_changed"}
          /\ Recorded.new_value # None
          /\ HasRow(feature_flags, Recorded.flag_id) )
        => LET before == StoredFlag(feature_flags, Recorded.flag_id)
               after == StoredFlag(feature_flags', Recorded.flag_id)
               newValue == Recorded.new_value[1]
           IN  /\ after.enabled = (IF newValue.enabled THEN 1 ELSE 0)
               /\ newValue.rolloutPercentage # None
                     => after.rollout_percentage = newValue.rolloutPercentage[1]
               /\ after.updated_at > before.updated_at ]_vars

-----------------------------------------------------------------------------
(* The append-only stores *)

(* C14: the change log and the metrics store are append-only across every  *)
(* operation (create flag, record change, ingest metrics, chat, analyze,   *)
(* socket messages): every step leaves the rows already stored in          *)
(* flag_changes and impact_metrics as they are, in place, and only adds    *)
(* rows after them.                                                        *)
C14_AppendOnlyStores ==
    [][ /\ IsPrefix(flag_changes, flag_changes')
        /\ IsPrefix(impact_metrics, impact_metrics') ]_vars

\* both stores hold rows and a socket query has just been answered
C14_Witness ==
    /\ flag_changes # <<>>
    /\ impact_metrics # <<>>
    /\ \E s \in Range(sessions) : Received(outbox, s, "subscribed")

-----------------------------------------------------------------------------
(* The order of the steps of a flag-change request *)

\* positions in a sequence of sends of the frames of one type
FramesOfType(sends, type) ==
    {k \in 1..Len(sends) : "type" \in DOMAIN sends[k].frame /\ sends[k].frame.type = type}

(* C15: a flag-change request performs its steps in order.  The change is  *)
(* in the change log while the request waits for the model; when the       *)
(* request completes, the prediction the model call produced is stored,    *)
(* the scan for the change's flag has run in that step over the samples    *)
(* stored by then, every anomaly_detected frame precedes every             *)
(* flag_changed frame, flag_changed with the prediction has gone to every  *)
(* open session, and the response carries that prediction.                 *)
C15_ChangeHandlingOrder ==
    [][ /\ \A i \in 1..Len(pending') :
              pending'[i].op = "recordChange"
                 => HasRow(flag_changes', pending'[i].change.id[1])
        /\ CompletesPrediction("recordChange") =>
              /\ response'.ai[1].ok
                    => SelectSeq(predictions', LAMBDA r : r.flag_id = response'.flagId)
                          = <<AsRow(response'.prediction[1])>>
              /\ lastScan'.seq = lastScan.seq + 1
              /\ lastScan'.flagId = response'.flagId
              /\ lastScan'.nMetrics = Len(impact_metrics)
              /\ \A a \in FramesOfType(outbox', "anomaly_detected") :
                    \A c \in FramesOfType(outbox', "flag_changed") : a < c
              /\ \A s \in Range(sessions') :
                    s \notin broken' =>
                       \E c \in FramesOfType(outbox', "flag_changed") :
                          /\ outbox'[c].to = s
                          /\ outbox'[c].frame.payload.prediction = response'.prediction[1]
              /\ response'.status = 200 ]_vars

\* a flag-change request has completed with a client connected, and its scan
\* covered a sample ingested while the request waited for the model
C15_Witness ==
    /\ response.op = "recordChange" /\ response.status = 200
    /\ response.ai # None /\ response.ai[1].ok
    /\ FramesOfType(outbox, "flag_changed") # {}
    /\ lastScan.flagId = response.flagId /\ lastScan.nMetrics = 1
    /\ \E i \in 1..Len(flag_changes) :
          /\ flag_changes[i].change_type = "enabled"
          /\ impact_metrics[1].timestamp > flag_changes[i].changed_at

-----------------------------------------------------------------------------
(* Metrics ingestion *)

\* the step is a metrics ingestion: POST /metrics answers and its scan has run
IngestsMetrics == response'.op = "metrics" /\ lastScan'.seq = lastScan.seq + 1

(* C16: a metrics ingestion appends exactly one sample, the request's, and *)
(* runs the detection scan for its flag over the table with that sample;   *)
(* it starts no model call and leaves the flag store, the change log, the  *)
(* prediction store and the conversation log unchanged.                    *)
C16_IngestionOnlyScans ==
    [][ IngestsMetrics =>
          /\ Len(impact_metrics') = Len(impact_metrics) + 1
          /\ SubSeq(impact_metrics', 1, Len(impact_metrics)) = impact_metrics
          /\ impact_metrics'[Len(impact_metrics')].flag_id = response'.flagId
          /\ lastScan'.flagId = response'.flagId
          /\ lastScan'.nMetrics = Len(impact_metrics')
          /\ pending' = pending
          /\ feature_flags' = feature_flags
          /\ flag_changes' = flag_changes
          /\ predictions' = predictions
          /\ conversations' = conversations ]_vars

\* a sample has been ingested while the conversation log holds a message and the
\* chat's model call is pending
C16_Witness ==
    /\ response.op = "metrics" /\ response.status = 200
    /\ lastScan.flagId = response.flagId /\ lastScan.nMetrics = Len(impact_metrics)
    /\ impact_metrics # <<>>
    /\ conversations # <<>>
    /\ \E i \in 1..Len(pending) : pending[i].op = "chat"

-----------------------------------------------------------------------------
(* Chat when the model call fails *)

\* the step ends the chat that is the i-th pending model call
ChatCompletes(i) == pending[i].op = "chat" /\ pending' = RemoveAt(pending, i)

\* what the chat replied in this step: the body of POST /chat's response, or the
\* payloads of the chat_response frames sent on the socket that asked
ChatReplied(task) ==
    IF task.socket = None
    THEN {response'.reply[1]}
    ELSE {outbox'[k].frame.payload : k \in FramesOfType(outbox', "chat_response")}

\* the model call of the chat threw: the reply has no context (only the catch of
\* processChat returns without one), and POST /chat's response records the outcome
ChatCallFailed(task) ==
    /\ \A reply \in ChatReplied(task) : reply.context = None
    /\ ChatReplied(task) # {}
    /\ task.socket = None => ~response'.ai[1].ok

\* the step starts a chat: the model call of a chat joins the pending ones
ChatStarts ==
    /\ Len(pending') = Len(pending) + 1
    /\ pending'[Len(pending')].op = "chat"

(* C17: when the model call of a chat fails, the chat still replies, with  *)
(* the fixed apology string, and appends no assistant message.  The chat   *)
(* appended its user message when it started and that message remains, so  *)
(* the conversation log has grown by exactly one message over the call.    *)
C17_ChatFailureReply ==
    [][ /\ ChatStarts =>
              /\ Len(conversations') = Len(conversations) + 1
              /\ SubSeq(conversations', 1, Len(conversations)) = conversations
              /\ conversations'[Len(conversations')].role = "user"
              /\ conversations'[Len(conversations')].session_id
                    = pending'[Len(pending')].sessionId
        /\ \A i \in 1..Len(pending) :
              ChatCompletes(i) /\ ChatCallFailed(pending[i]) =>
                 /\ \A reply \in ChatReplied(pending[i]) :
                       /\ reply.message = ChatErrorReply
                       /\ reply.sessionId = pending[i].sessionId
                 /\ conversations' = conversations
                 /\ LET history == pending[i].history IN
                    /\ history # <<>>
                    /\ history[Len(history)].role = "user"
                    /\ history[Len(history)] \in Range(conversations') ]_vars

\* POST /chat has answered with the apology after its model call threw, and the
\* session's log holds the user message alone
C17_Witness ==
    /\ response.op = "chat" /\ response.status = 200
    /\ response.ai # None /\ ~response.ai[1].ok
    /\ response.reply # None /\ response.reply[1].message = ChatErrorReply
    /\ LET log == SelectSeq(conversations,
                            LAMBDA r : r.session_id = response.reply[1].sessionId)
       IN  Len(log) = 1 /\ log[1].role = "user"

-----------------------------------------------------------------------------
(* Operations while a model call is pending *)

\* the tables of the agent
Stores == <<feature_flags, flag_changes, impact_metrics, predictions, anomalies,
            conversations>>

(* C18: while a model call made by one operation is pending, no other      *)
(* operation is admitted: a step taken with a call pending is the end of a *)
(* pending call, or it writes no store and starts no model call.           *)
C18_NoInterleaving ==
    [][ pending # <<>> =>
          \/ Completes
          \/ /\ Stores' = Stores
             /\ pending' = pending ]_vars

-----------------------------------------------------------------------------
(* Broadcast when a socket throws on send *)

\* every session whose socket accepts sends has a frame of the type among the sends
DeliveredToOpen(sends, type) ==
    \A s \in Range(sessions') :
       s \notin broken' => \E k \in FramesOfType(sends, type) : sends[k].to = s

(* C19: a send failure on one session's socket during a broadcast is       *)
(* swallowed.  When a flag creation or a flag-change request broadcasts,   *)
(* every session whose socket accepts the send receives the event whatever *)
(* sockets throw, the row the request wrote is in its table, and the       *)
(* request completes with its success status.                              *)
C19_SendFailureSwallowed ==
    [][ /\ CreatesFlag =>
              /\ DeliveredToOpen(outbox', "flag_created")
              /\ response'.op = "createFlag" /\ response'.status = 201
              /\ HasRow(feature_flags', response'.flagId)
              /\ CreatedRecords(flag_changes', response'.flagId) # {}
        /\ CompletesPrediction("recordChange") =>
              /\ DeliveredToOpen(outbox', "flag_changed")
              /\ response'.status = 200
              /\ \E i \in 1..Len(pending) :
                    /\ pending' = RemoveAt(pending, i)
                    /\ HasRow(flag_changes', pending[i].change.id[1])
              /\ response'.ai[1].ok
                    => SelectSeq(predictions', LAMBDA r : r.flag_id = response'.flagId)
                          = <<AsRow(response'.prediction[1])>> ]_vars

\* a flag-change request has completed with success while the socket of the first
\* session threw on send: the session after it has the event
C19_Witness ==
    /\ response.op = "recordChange" /\ response.status = 200
    /\ Len(sessions) = 2
    /\ sessions[1] \in broken /\ sessions[2] \notin broken
    /\ FramesOfType(outbox, "flag_changed") # {}
    /\ \A k \in FramesOfType(outbox, "flag_changed") : outbox[k].to = sessions[2]
    /\ flag_changes # <<>>

-----------------------------------------------------------------------------
(* Analyze-by-id of an unknown flag *)

\* the step answers POST /analyze with not-found
AnalyzeNotFound ==
    /\ response' # response
    /\ response'.op = "analyzeFlag" /\ response'.status = 404

(* C20: analyze-by-id with a flag id that is not in the flag store reports *)
(* not-found and changes nothing.  A model call of analyze-by-id is only   *)
(* ever pending, and a prediction only ever returned, for a stored flag;   *)
(* the not-found answer is for a flag that is not stored, and its step     *)
(* starts no model call, stores no prediction, runs no scan, creates no    *)
(* anomaly and sends nothing.                                              *)
C20_UnknownFlagChangesNothing ==
    [][ /\ \A i \in 1..Len(pending') :
              pending'[i].op = "analyzeFlag"
                 => HasRow(feature_flags', pending'[i].change.flagId)
        /\ CompletesPrediction("analyzeFlag") => HasRow(feature_flags', response'.flagId)
        /\ AnalyzeNotFound =>
              /\ ~HasRow(feature_flags, response'.flagId)
              /\ response'.prediction = None
              /\ pending' = pending
              /\ Stores' = Stores
              /\ lastScan' = lastScan
              /\ outbox' = <<>> ]_vars

\* not-found has been reported for f9 while another flag is stored with its
\* prediction
C20_Witness ==
    /\ response.op = "analyzeFlag" /\ response.status = 404 /\ response.flagId = "f9"
    /\ feature_flags # <<>>
    /\ predictions # <<>>

-----------------------------------------------------------------------------
(* Malformed messages on a socket *)

\* positions in a sequence of sends of the format-error frames
FormatErrors(sends) == {k \in 1..Len(sends) : "error" \in DOMAIN sends[k].frame}

(* C21: a malformed inbound message is answered with a format-error frame  *)
(* on the channel it came in on, and the channel stays open.  The step     *)
(* that sends the frame sends it alone, to a session of the registry, and  *)
(* changes nothing else: the registry, the sockets that accept sends, the  *)
(* tables and the pending model calls are those of before, so the session  *)
(* is served afterwards as it was before.  Every session of the registry   *)
(* whose socket accepts sends receives each flag_created broadcast.        *)
C21_MalformedMessageReported ==
    [][ /\ FormatErrors(outbox') # {} =>
              /\ Len(outbox') = 1
              /\ outbox'[1].frame.error = "Invalid message format"
              /\ outbox'[1].to \in Range(sessions')
              /\ sessions' = sessions
              /\ broken' = broken
              /\ Stores' = Stores
              /\ pending' = pending
              /\ response' = response
        /\ CreatesFlag => DeliveredToOpen(outbox', "flag_created") ]_vars

\* a session has just been sent the format-error frame and is in the registry
C21_Witness ==
    /\ FormatErrors(outbox) # {}
    /\ \A k \in FormatErrors(outbox) : outbox[k].to \in Range(sessions) \ broken
    /\ feature_flags # <<>>

-----------------------------------------------------------------------------
(* The shape of outbound frames *)

(* C22: every frame the agent sends on a socket (connection                *)
(* acknowledgment, chat reply, subscription reply, predictions list,       *)
(* format-error frame and every broadcast) carries both a type             *)
(* discriminator and a payload field.                                      *)
C22_FramesHaveTypeAndPayload ==
    \A k \in 1..Len(outbox) :
       /\ "type" \in DOMAIN outbox[k].frame
       /\ "payload" \in DOMAIN outbox[k].frame

-----------------------------------------------------------------------------
(* The anomaly listing *)

\* the lists of anomalies the agent has just returned: the subscription replies
\* among the sends, and the body of GET /anomalies
AnomalyListings ==
    {outbox[k].frame.anomalies : k \in FramesOfType(outbox, "subscribed")}
       \cup (IF response.op = "getAnomalies" THEN {response.reply[1]} ELSE {})

Unresolved == {i \in 1..Len(anomalies) : ~anomalies[i].resolved}

\* the listing holds unresolved anomalies of the store, each once, newest first
NewestFirstUnresolved(listing) ==
    /\ \A i \in 1..Len(listing) : \E u \in Unresolved : anomalies[u] = listing[i]
    /\ \A i, j \in 1..Len(listing) : i # j => listing[i].id # listing[j].id
    /\ \A i, j \in 1..Len(listing) :
          i < j => listing[i].detected_at >= listing[j].detected_at

-----------------------------------------------------------------------------
(* The conversational context of a chat *)

\* the chat the step starts, and the user message it stored
Started == pending'[Len(pending')]
NewMessage == conversations'[Len(conversations')]

\* the rows of a session in the conversation log
SessionLog(table, sessionId) == {i \in 1..Len(table) : table[i].session_id = sessionId}

(* C24: the conversational context a chat sends to the model is at most 10 *)
(* stored messages, all of the caller's session, the 10 most recent of     *)
(* that session (all of them when it has at most 10), oldest first.        *)
C24_HistoryOfSession ==
    [][ ChatStarts =>
          LET history == Started.history
              log == SessionLog(conversations', Started.sessionId)
          IN  /\ Len(history) = Min(10, Cardinality(log))
              /\ \A i \in 1..Len(history) :
                    /\ history[i].session_id = Started.sessionId
                    /\ \E k \in log : conversations'[k] = history[i]
              /\ \A i, j \in 1..Len(history) :
                    i < j => history[i].timestamp < history[j].timestamp
              /\ \A k \in log :
                    \/ \E i \in 1..Len(history) : history[i] = conversations'[k]
                    \/ \A i \in 1..Len(history) :
                          history[i].timestamp > conversations'[k].timestamp
              /\ \A i \in 1..Len(history) :
                    /\ Started.messages[i + 1].role = history[i].role
                    /\ Started.messages[i + 1].content = history[i].content ]_vars

\* a chat is waiting for the model with the 10 newest of the 11 messages of its
\* session as history, while the log holds a message of another session
C24_Witness ==
    \E i \in 1..Len(pending) :
       /\ pending[i].op = "chat"
       /\ Len(pending[i].history) = 10
       /\ Cardinality(SessionLog(conversations, pending[i].sessionId)) = 11
       /\ Len(conversations) > 11

\* how many entries of a sequence are user messages of the given content
UserEntries(entries, content) ==
    Cardinality({i \in 1..Len(entries) :
                   entries[i].role = "user" /\ entries[i].content = content})

(* C25: in the message list a chat sends to the model (system instruction, *)
(* then message history, then the new user message) the new user message   *)
(* appears exactly once: the list has one user entry of its content more   *)
(* than the messages stored before the call contribute.                    *)
C25_NewMessageOnce ==
    [][ ChatStarts =>
          LET prior == SelectSeq(Started.history, LAMBDA r : r.id # NewMessage.id) IN
          /\ Started.messages[1].role = "system"
          /\ UserEntries(Started.messages, NewMessage.content)
                = UserEntries(prior, NewMessage.content) + 1 ]_vars

-----------------------------------------------------------------------------
(* The numbers of a well-formed model response *)

\* the JSON objects in the text of the reply the completed request got
ReturnedObjects ==
    IF CallReturned /\ response.ai[1].response # None
    THEN LET text == response.ai[1].response[1] IN
         IF \A i \in 1..Len(text) : text[i].k \in {"prose", "object"}
         THEN {text[i].v : i \in {j \in 1..Len(text) : text[j].k = "object"}}
         ELSE {}
    ELSE {}

(* C26: for a well-formed model response (a reply whose text holds one     *)
(* JSON object with a risk score and a confidence) the prediction's risk   *)
(* score and confidence are exactly the values the model returned, 0       *)
(* included: the engine neither clamps nor substitutes them.               *)
C26_ScoreAndConfidenceAsReturned ==
    \A v \in ReturnedObjects :
       Cardinality(ReturnedObjects) = 1 /\ v.riskScore # None /\ v.confidence # None
          => /\ response.prediction[1].riskScore = v.riskScore[1]
             /\ response.prediction[1].confidence = v.confidence[1]

-----------------------------------------------------------------------------
(* The change history of the prediction prompt *)

\* the rows the prompt of a pending prediction lists, one line each
Listed(task) ==
    SubSeq(task.recentChanges, 1, Len(task.promptHistory))

(* C27: the change history rendered into the prediction prompt for a       *)
(* change C lists at most five changes of C's flag, all of them prior to C *)
(* (C itself is never listed), newest first.                               *)
C27_PromptListsPriorChanges ==
    \A i \in 1..Len(pending) :
       "promptHistory" \in DOMAIN pending[i] =>
          LET listed == Listed(pending[i])
              change == pending[i].change
          IN  /\ Len(listed) <= 5
              /\ \A k \in 1..Len(listed) :
                    /\ listed[k].flag_id = change.flagId
                    /\ listed[k].id # change.id[1]
                    /\ listed[k].changed_at <= change.changedAt[1]
              /\ \A k, l \in 1..Len(listed) :
                    k < l => listed[k].changed_at >= listed[l].changed_at

-----------------------------------------------------------------------------
(* The registry of live sessions *)

\* the sessions that have a frame of the type among the sends
ReceiversOf(sends, type) == {sends[k].to : k \in FramesOfType(sends, type)}

\* the registry changes as a connect changes it: the new session id is added and
\* the acknowledgment that carries it is the one frame sent
RegistryConnects ==
    \E id \in Range(sessions') \ Range(sessions) :
       /\ sessions' = Append(sessions, id)
       /\ outbox' = << [to |-> id, frame |-> [type |-> "connected", sessionId |-> id]] >>

\* the registry changes as a close changes it: one session id is removed
RegistryCloses ==
    \E id \in Range(sessions) :
       sessions' = SelectSeq(sessions, LAMBDA s : s # id)

\* the registry changes only by a connect or a close, frames go to its sessions
\* only, and each session is in it once
RegistryRule ==
    /\ sessions' # sessions => RegistryConnects \/ RegistryCloses
    /\ \A k \in 1..Len(outbox') : outbox'[k].to \in Range(sessions')
    /\ \A i, j \in 1..Len(sessions') : i # j => sessions'[i] # sessions'[j]

(* C28, as stated: the registry changes only on connect and close (a       *)
(* connect adds exactly the new session id and its acknowledgment is the   *)
(* first frame on it, a close removes exactly that id, nothing else adds   *)
(* or removes an entry), and a broadcast is delivered to exactly the       *)
(* sessions of the registry.  A session whose socket throws on send stays  *)
(* in the registry and is not delivered to.                                *)
C28_BroadcastReachesRegistry ==
    [][ /\ RegistryRule
        /\ CreatesFlag => ReceiversOf(outbox', "flag_created") = Range(sessions')
        /\ CompletesPrediction("recordChange")
              => ReceiversOf(outbox', "flag_changed") = Range(sessions') ]_vars

(* C28, amended: the registry changes only on connect and close (a connect *)
(* adds exactly the new session id and its acknowledgment is the first     *)
(* frame on it, a close removes exactly that id, and no other operation,   *)
(* a failed send during broadcast included, adds or removes an entry), and *)
(* a broadcast is delivered to exactly the sessions of the registry whose  *)
(* socket accepts the send.                                                *)
C28_RegistryMembership ==
    [][ /\ RegistryRule
        /\ CreatesFlag
              => ReceiversOf(outbox', "flag_created") = Range(sessions') \ broken'
        /\ CompletesPrediction("recordChange")
              => ReceiversOf(outbox', "flag_changed") = Range(sessions') \ broken' ]_vars

\* a broadcast has reached the one session whose socket accepts sends, and the
\* session whose socket threw is still in the registry
C28_Witness ==
    /\ Len(sessions) = 2
    /\ sessions[2] \in broken /\ sessions[1] \notin broken
    /\ ReceiversOf(outbox, "flag_created") = {sessions[1]}
    /\ response.op = "createFlag" /\ response.status = 201

-----------------------------------------------------------------------------
(* Creation of a flag whose id is taken *)

\* the step answers POST /flags with a failure
CreationFails ==
    /\ response' # response
    /\ response'.op = "createFlag" /\ response'.status = 500

(* C29: flag ids stay unique.  The flag store only grows, by rows of new   *)
(* ids, so a stored flag is never overwritten; a creation whose id is      *)
(* taken fails, and its step appends no "created" change record,           *)
(* broadcasts nothing and leaves every store unchanged.                    *)
C29_FlagIdsUnique ==
    [][ /\ IsPrefix(feature_flags, feature_flags')
        /\ \A i, j \in 1..Len(feature_flags') :
              i # j => feature_flags'[i].id # feature_flags'[j].id
        /\ CreationFails =>
              /\ HasRow(feature_flags, response'.flagId)
              /\ Stores' = Stores
              /\ pending' = pending
              /\ outbox' = <<>> ]_vars

\* POST /flags has failed for the id of a stored flag while a client is connected
C29_Witness ==
    /\ response.op = "createFlag" /\ response.status = 500
    /\ HasRow(feature_flags, response.flagId)
    /\ Cardinality(CreatedRecords(flag_changes, response.flagId)) = 1
    /\ sessions # <<>>
    /\ outbox = <<>>

-----------------------------------------------------------------------------
(* Changes of flags that are not in the flag store *)

\* the step ends a change request whose flag id is not a stored flag's
CompletesChangeOfAbsentFlag ==
    /\ CompletesPrediction("recordChange")
    /\ ~ HasRow(feature_flags, response'.flagId)

\* the step takes up a change request whose flag id is not a stored flag's
AcceptsChangeOfAbsentFlag ==
    /\ Len(pending') = Len(pending) + 1
    /\ pending'[Len(pending')].op = "recordChange"
    /\ ~ HasRow(feature_flags, pending'[Len(pending')].change.flagId)

(* C30: change recording does not check that the flag exists.  When a      *)
(* change request for a flag id absent from the flag store completes, the  *)
(* change is in the change log, the prediction returned is stored under    *)
(* that flag id, flag_changed has been sent to every session whose socket  *)
(* accepts it, and the flag store is as before and still has no such flag. *)
C30_AbsentFlagChangeRecorded ==
    [][ /\ AcceptsChangeOfAbsentFlag =>
              /\ Recorded.flag_id = pending'[Len(pending')].change.flagId
              /\ feature_flags' = feature_flags
        /\ CompletesChangeOfAbsentFlag =>
              /\ \E i \in 1..Len(flag_changes') :
                    flag_changes'[i].flag_id = response'.flagId
              /\ response'.status = 200
              /\ SelectSeq(predictions', LAMBDA r : r.flag_id = response'.flagId)
                    = <<AsRow(response'.prediction[1])>>
              /\ DeliveredToOpen(outbox', "flag_changed")
              /\ feature_flags' = feature_flags
              /\ ~ HasRow(feature_flags', response'.flagId) ]_vars

=============================================================================
